---- MODULE Spec2Model ----
(***************************************************************************)
(* A model of mahalo-transpiler: the rewrite of one compilation unit into  *)
(* hook calls (mahaloTranspiler and its nested functions), the position    *)
(* map it produces and the merge of that map with the lowering pass's map. *)
(*                                                                         *)
(* Text is a sequence of one-character strings.  Offsets are 0-based as in *)
(* the source; the character at offset k of a text t is t[k + 1].          *)
(***************************************************************************)
EXTENDS Integers, Sequences, FiniteSets, TLC

VARIABLES
    pc,                  \* position inside mahaloTranspiler: "idle" between calls
    fileName,            \* let fileName
    sourceFile,          \* let sourceFile (the root syntax node)
    sourceText,          \* let sourceText (the unit's text, later the rewritten text)
    originalText,        \* sourceFile.text, kept for reference by the properties
    identifiers,         \* let identifiers
    assignIdentifier,    \* let assignIdentifier
    shouldImportAssign,  \* let shouldImportAssign
    rootNode,            \* let sourceNode of mahaloTranspiler (the root fragment)
    sourceMap,           \* let sourceMap
    result,              \* let result: what ts.transpileModule returned
    returned,            \* the value returned to the caller
    calls,               \* the calls of findEdits and createSourceNode of the walk
    shouldDiagnose,      \* the parameter shouldDiagnose
    diagnostics,         \* what ts.getPreEmitDiagnostics returned, while line 43 runs
    error,               \* the message of the Error line 46 threw
    classes,             \* the class declarations the checker knows, base classes last
    lineage,             \* the last call of extendsClass and what it returned
    cachedPrograms,      \* let cachedPrograms (line 474), oldest program first
    disk,                \* the files ts.createProgram can read, each with what it holds
    cacheCall,           \* the last call of getProgram or clearCachedPrograms
    reference            \* what the runs on a program made for them have returned

\* What a run of mahaloTranspiler works on, and what extendsClass reads.
runVars == <<pc, fileName, sourceFile, sourceText, originalText, identifiers,
             assignIdentifier, shouldImportAssign, rootNode, sourceMap, result,
             returned, calls, shouldDiagnose, diagnostics, error>>

lineageVars == <<classes, lineage>>

\* The cache of programs, and what the properties of the cache keep of its use.
cacheVars == <<cachedPrograms, disk, cacheCall, reference>>

vars == <<runVars, lineageVars, cacheVars>>

(***************************************************************************)
(* Bounds of the model.                                                    *)
(***************************************************************************)
\* Longest run of blanks in front of a token of a generated unit.
MaxLead == 1
\* Longest chain assign, _assign, __assign, ... a generated unit declares.
MaxChain == 2
\* Nesting depth of assignments inside the right-hand side of an assignment.
MaxNest == 1
\* Classes between a class and the topmost class of its inheritance chain.
MaxDepth == 2
\* Integers stored in the heap the emitted expressions are evaluated in: -MaxInt..MaxInt.
MaxInt == 2
\* Files without a class on the disk the cache of programs is exercised on.
MaxFiles == 5

(***************************************************************************)
(* Text.                                                                   *)
(***************************************************************************)
Min(a, b) == IF a < b THEN a ELSE b

\* String.prototype.substr(start, length) for start >= 0.
Substr(text, start, length) ==
    LET s == Min(start, Len(text))
        n == IF length < 0 THEN 0 ELSE Min(length, Len(text) - s)
    IN  SubSeq(text, s + 1, s + n)

RECURSIVE Concat(_)
\* The concatenation of a sequence of texts.
Concat(ts) == IF ts = <<>> THEN <<>> ELSE Head(ts) \o Concat(Tail(ts))

Blanks(n) == [i \in 1..n |-> " "]

\* The white space of the units, which is also what \s matches in them.
WhiteSpace == {" ", "\n", "\t"}

\* The text has the literal at offset pos.
StartsWith(text, pos, literal) ==
    /\ pos + Len(literal) <= Len(text)
    /\ SubSeq(text, pos + 1, pos + Len(literal)) = literal

RECURSIVE skipWhiteSpace(_, _)
\* The offset after the white space at offset pos (the \s* of a pattern).
skipWhiteSpace(text, pos) ==
    IF pos < Len(text) /\ text[pos + 1] \in WhiteSpace
    THEN skipWhiteSpace(text, pos + 1)
    ELSE pos

RECURSIVE endOfComment(_, _)
\* The offset after the first "*/" at or after offset pos; the end of the
\* text when there is none.
endOfComment(text, pos) ==
    IF pos + 2 > Len(text) THEN Len(text)
    ELSE IF StartsWith(text, pos, <<"*", "/">>) THEN pos + 2
    ELSE endOfComment(text, pos + 1)

RECURSIVE skipTrivia(_, _)
\* ts.skipTrivia(text, pos): the offset of the first character at or after
\* pos that is neither white space nor part of a /* */ comment.
skipTrivia(text, pos) ==
    IF pos < Len(text) /\ text[pos + 1] \in WhiteSpace THEN skipTrivia(text, pos + 1)
    ELSE IF StartsWith(text, pos, <<"/", "*">>)
    THEN skipTrivia(text, endOfComment(text, pos + 2))
    ELSE pos

LowerCase ==
    {"a", "b", "c", "d", "e", "f", "g", "h", "i", "j", "k", "l", "m", "n", "o", "p",
     "q", "r", "s", "t", "u", "v", "w", "x", "y", "z"}

UpperCase ==
    {"A", "B", "C", "D", "E", "F", "G", "H", "I", "J", "K", "L", "M", "N", "O", "P",
     "Q", "R", "S", "T", "U", "V", "W", "X", "Y", "Z"}

Digits == {"0", "1", "2", "3", "4", "5", "6", "7", "8", "9"}

\* Offsets at which a line starts, after offset `from`.
LineStarts(text, from) == { n \in (from + 1)..Len(text) : text[n] = "\n" }

\* ts.getLineAndCharacterOfPosition: 0-based line and character of an offset.
getLineAndCharacterOfPosition(text, position) ==
    LET starts == {0} \cup {s \in LineStarts(text, 0) : s <= position}
        start  == CHOOSE s \in starts : \A q \in starts : q <= s
    IN  [line |-> Cardinality(starts) - 1, character |-> position - start]

\* The test of a regular expression made of literal characters, "." (any
\* character but a line break) and a final "$", as new RegExp(pattern) builds it.
RegExpTest(pattern, text) ==
    LET anchored == pattern # <<>> /\ pattern[Len(pattern)] = "$"
        body     == IF anchored THEN SubSeq(pattern, 1, Len(pattern) - 1) ELSE pattern
        n        == Len(body)
        At(k)    == \A i \in 1..n :
                        IF body[i] = "." THEN text[k + i] # "\n" ELSE text[k + i] = body[i]
    IN  \E k \in 0..(Len(text) - n) : At(k) /\ (anchored => k + n = Len(text))

\* A literal pattern with no metacharacter: is it found in the text.
Contains(text, literal) ==
    \E k \in 0..(Len(text) - Len(literal)) : SubSeq(text, k + 1, k + Len(literal)) = literal

(***************************************************************************)
(* Syntax trees.  The front end (ts.createProgram) is not part of the      *)
(* repository: a unit is described by a term, and Lay gives the text and   *)
(* the tree the front end makes of it.  A term is a text `pre` (leading    *)
(* trivia and the tokens before the first child), then its children, each  *)
(* followed by the text seps[i] of the tokens after it; roles[i] is the    *)
(* property of the node that holds the child ("name", "initializer", ...,  *)
(* "" when no rule reads it).  A node is                                   *)
(* [kind, pos, end, operator, locals, children, role, up]: pos is          *)
(* getFullStart(), children is the order ts.forEachChild visits, role the  *)
(* property of node.parent that holds the node, and up what the rules read *)
(* of node.parent: its kind, the span of its name and the kind of its own  *)
(* parent.                                                                 *)
(***************************************************************************)
Term(kind, operator, locals, pre, kids, seps) ==
    [kind |-> kind, operator |-> operator, locals |-> locals,
     pre |-> pre, kids |-> kids, seps |-> seps,
     roles |-> [i \in 1..Len(kids) |-> ""]]

WithRoles(t, roles) == [t EXCEPT !.roles = roles]

NoSpan == [pos |-> 0, end |-> 0]

NoUp == [kind |-> "", name |-> NoSpan, upKind |-> ""]

NoNode ==
    [kind |-> "", pos |-> 0, end |-> 0, operator |-> "", locals |-> <<>>,
     children |-> <<>>, role |-> "", up |-> NoUp]

RECURSIVE TextOf(_)
\* The text of a term: its own text, then each child and what follows it.
TextOf(t) ==
    t.pre \o Concat([i \in 1..Len(t.kids) |-> TextOf(t.kids[i]) \o t.seps[i]])

RECURSIVE Sum(_)
Sum(ns) == IF ns = <<>> THEN 0 ELSE Head(ns) + Sum(Tail(ns))

RECURSIVE LayIn(_, _, _, _)
\* The node of a term whose text starts at offset pos, held by the property
\* `role` of a parent described by `up`.
LayIn(t, pos, role, up) ==
    LET widths == <<>> \o [i \in 1..Len(t.kids) |->
                                Len(TextOf(t.kids[i])) + Len(t.seps[i])]
        at(i)  == pos + Len(t.pre) + Sum(SubSeq(widths, 1, i - 1))
        named  == { i \in 1..Len(t.kids) : t.roles[i] = "name" }
        name   == IF named = {} THEN NoSpan
                  ELSE LET i == CHOOSE i \in named : TRUE
                       IN  [pos |-> at(i), end |-> at(i) + Len(TextOf(t.kids[i]))]
        below  == [kind |-> t.kind, name |-> name, upKind |-> up.kind]
    IN  [kind |-> t.kind, pos |-> pos, end |-> pos + Len(TextOf(t)),
         operator |-> t.operator, locals |-> t.locals,
         children |-> [i \in 1..Len(t.kids) |-> LayIn(t.kids[i], at(i), t.roles[i], below)],
         role |-> role, up |-> up]

\* The tree of a unit.
Lay(t, pos) == LayIn(t, pos, "", NoUp)

\* Node accessors of the TypeScript API.
getFullStart(node) == node.pos

getFullWidth(node) == node.end - node.pos

getStart(node) == skipTrivia(originalText, node.pos)

\* The assignment operator tokens findEdits lists (ts.SyntaxKind names).
AssignmentTokenText ==
    [FirstAssignment |-> <<"=">>,
     PlusEqualsToken |-> <<"+", "=">>,
     MinusEqualsToken |-> <<"-", "=">>,
     AsteriskEqualsToken |-> <<"*", "=">>,
     SlashEqualsToken |-> <<"/", "=">>,
     PercentEqualsToken |-> <<"%", "=">>,
     AsteriskAsteriskEqualsToken |-> <<"*", "*", "=">>,
     BarEqualsToken |-> <<"|", "=">>,
     AmpersandEqualsToken |-> <<"&", "=">>,
     GreaterThanGreaterThanEqualsToken |-> <<">", ">", "=">>,
     GreaterThanGreaterThanGreaterThanEqualsToken |-> <<">", ">", ">", "=">>,
     LessThanLessThanEqualsToken |-> <<"<", "<", "=">>,
     CaretEqualsToken |-> <<"^", "=">>]

AssignmentTokens == DOMAIN AssignmentTokenText

OtherTokenText == [PlusToken |-> <<"+">>, AsteriskToken |-> <<"*">>]

TokenText(kind) ==
    IF kind \in AssignmentTokens THEN AssignmentTokenText[kind] ELSE OtherTokenText[kind]

(***************************************************************************)
(* Class lineage.  The type checker is not part of the repository: the     *)
(* model gives, for each class declaration, what the checker answers about *)
(* it.  classes[1] is a class of the unit; classes[n].base is the place in *)
(* classes of the symbol the expression of its extends clause resolves to  *)
(* (0: to no symbol).  Of a symbol extendsClass reads the name, the kind   *)
(* of its value declaration ("" when it has none) and the file of that     *)
(* declaration.                                                            *)
(***************************************************************************)
Class(name, file, kind, heritageClauses, base) ==
    [name |-> name, fileName |-> file, kind |-> kind,
     heritageClauses |-> heritageClauses, base |-> base]

default == <<"d", "e", "f", "a", "u", "l", "t">>

coreComponent == <<"c", "o", "r", "e", "/", "c", "o", "m", "p", "o", "n", "e", "n", "t">>

coreBehavior == <<"c", "o", "r", "e", "/", "b", "e", "h", "a", "v", "i", "o", "r">>

componentsRoute == <<"c", "o", "m", "p", "o", "n", "e", "n", "t", "s", "/", "r", "o", "u", "t", "e">>

\* The pattern of line 457.
sentinelPattern(from) ==
    <<"/", "n", "o", "d", "e", "_", "m", "o", "d", "u", "l", "e", "s", "/",
      "m", "a", "h", "a", "l", "o", "/">> \o from \o <<".", "t", "s", "$">>

\* The file of the framework module `from`.
SentinelPath(from) ==
    <<"/", "n", "o", "d", "e", "_", "m", "o", "d", "u", "l", "e", "s", "/",
      "m", "a", "h", "a", "l", "o", "/">> \o from \o <<".", "t", "s">>

RECURSIVE extendsClass(_, _, _)
\* extendsClass(node, name, from), node given by its place in classes.  The
\* answer is "true", "undefined" (the function falls off its end) or
\* "TypeError" (symbol is undefined when its valueDeclaration is read).
extendsClass(node, name, from) ==
    LET clauses  == classes[node].heritageClauses
        extends_ == { j \in 1..Len(clauses) : clauses[j] = "ExtendsKeyword" }
    IN  IF clauses = <<>> \/ extends_ = {} THEN "undefined"
        ELSE IF classes[node].base = 0 THEN "TypeError"
        ELSE LET symbol == classes[classes[node].base]
             IN  IF symbol.name = name /\ symbol.kind # ""
                 THEN IF RegExpTest(sentinelPattern(from), symbol.fileName)
                      THEN "true"
                      ELSE IF symbol.kind = "ClassDeclaration"
                      THEN extendsClass(classes[node].base, name, from)
                      ELSE "undefined"
                 ELSE "undefined"

(***************************************************************************)
(* The units the model transpiles.  Every term below is the shape the      *)
(* TypeScript parser gives the text it stands for: leading trivia belongs  *)
(* to the first token of a node, operator tokens of a binary expression    *)
(* are child nodes, all other punctuation is text between children.        *)
(***************************************************************************)
NoLocals == <<>>

Identifier(lead, name) == Term("Identifier", "", NoLocals, lead \o name, <<>>, <<>>)

NumericLiteral(lead, digits) ==
    Term("NumericLiteral", "", NoLocals, lead \o digits, <<>>, <<>>)

StringLiteral(lead, body) ==
    Term("StringLiteral", "", NoLocals, lead \o <<"\"">> \o body \o <<"\"">>, <<>>, <<>>)

Token(lead, kind) == Term(kind, "", NoLocals, lead \o TokenText(kind), <<>>, <<>>)

PropertyAccess(object, name) ==
    Term("PropertyAccessExpression", "", NoLocals, <<>>,
         <<object, Identifier(<<>>, name)>>, << <<".">>, <<>> >>)

ElementAccess(object, index) ==
    Term("ElementAccessExpression", "", NoLocals, <<>>,
         <<object, index>>, << <<"[">>, <<"]">> >>)

Binary(left, lead, kind, right) ==
    Term("BinaryExpression", "", NoLocals, <<>>,
         <<left, Token(lead, kind), right>>, << <<>>, <<>>, <<>> >>)

UnaryText ==
    [PlusPlusToken |-> <<"+", "+">>, MinusMinusToken |-> <<"-", "-">>,
     MinusToken |-> <<"-">>]

PrefixUnary(lead, operator, operand) ==
    Term("PrefixUnaryExpression", operator, NoLocals, lead \o UnaryText[operator],
         <<operand>>, << <<>> >>)

PostfixUnary(operand, operator) ==
    Term("PostfixUnaryExpression", operator, NoLocals, <<>>,
         <<operand>>, << UnaryText[operator] >>)

Delete(lead, target) ==
    Term("DeleteExpression", "", NoLocals, lead \o <<"d", "e", "l", "e", "t", "e">>,
         <<target>>, << <<>> >>)

Parenthesized(lead, expression) ==
    Term("ParenthesizedExpression", "", NoLocals, lead \o <<"(">>,
         <<expression>>, << <<")">> >>)

ExpressionStatement(expression, semicolon) ==
    Term("ExpressionStatement", "", NoLocals, <<>>, <<expression>>, <<semicolon>>)

\* var name; or let name;
VariableStatement(lead, keyword, name) ==
    Term("VariableStatement", "", NoLocals, <<>>,
         << Term("VariableDeclarationList", "", NoLocals, lead \o keyword,
                 << Term("VariableDeclaration", "", NoLocals, <<>>,
                         << Identifier(<<" ">>, name) >>, << <<>> >>) >>,
                 << <<>> >>) >>,
         << <<";">> >>)

Block(kind, locals, lead, statements) ==
    Term(kind, "", locals, lead \o <<"{">>, statements,
         [i \in 1..Len(statements) |-> IF i = Len(statements) THEN <<"}">> ELSE <<>>])

SourceFileTerm(locals, statements, trailing) ==
    Term("SourceFile", "", locals, <<>>,
         statements \o << Term("EndOfFileToken", "", NoLocals, trailing, <<>>, <<>>) >>,
         [i \in 1..(Len(statements) + 1) |-> <<>>])

\* Names of the generated units.
nA == <<"a">>
nB == <<"b">>
nC == <<"c">>
nD == <<"d">>
nI == <<"i">>
nK == <<"k">>
nV == <<"v">>
nX == <<"x">>
nF == <<"f">>
Digit1 == <<"1">>
Semi == <<";">>
assign == <<"a", "s", "s", "i", "g", "n">>

Leads == {Blanks(n) : n \in 0..MaxLead}

\* The left sides: a plain variable and three member accesses; `first` is
\* the trivia in front of the first token.
MemberTargets(first) ==
    { PropertyAccess(Identifier(first, nA), nB),
      ElementAccess(Identifier(first, nA), Identifier(<<>>, nI)),
      ElementAccess(Identifier(first, nA), StringLiteral(<<>>, nK)) }

Targets(first) == {Identifier(first, nX)} \cup MemberTargets(first)

\* Right-hand sides that hold no assignment: 1, v, c.d, v + 1.
PlainValues(w) ==
    { NumericLiteral(w, Digit1), Identifier(w, nV),
      PropertyAccess(Identifier(w, nC), nD),
      Binary(Identifier(w, nV), w, "PlusToken", NumericLiteral(w, Digit1)) }

\* Every assignment operator on every left side, and three operators on
\* every plain right-hand side.
Assignments(first, w) ==
    { Binary(t, w, op, NumericLiteral(w, Digit1)) :
          t \in Targets(first), op \in AssignmentTokens }
    \cup
    { Binary(t, w, op, r) :
          t \in Targets(first),
          op \in {"FirstAssignment", "PlusEqualsToken", "AsteriskEqualsToken"},
          r \in PlainValues(w) }

Updates(first) ==
    { PrefixUnary(first, op, t) : op \in {"PlusPlusToken", "MinusMinusToken"},
                                  t \in Targets(<<>>) }
    \cup
    { PostfixUnary(t, op) : op \in {"PlusPlusToken", "MinusMinusToken"},
                            t \in Targets(first) }

Deletes(first) == { Delete(first, t) : t \in Targets(<<" ">>) }

\* Left sides that hold an update of their own: a[i++].b and a[i++].
NestedTargets(first) ==
    { PropertyAccess(ElementAccess(Identifier(first, nA),
                                   PostfixUnary(Identifier(<<>>, nI), "PlusPlusToken")), nB),
      ElementAccess(Identifier(first, nA),
                    PostfixUnary(Identifier(<<>>, nI), "PlusPlusToken")) }

\* An assignment, a compound assignment and a delete of each of them.
NestedTargetExpressions(first, w) ==
    { Binary(t, w, op, Identifier(w, nV)) :
          t \in NestedTargets(first), op \in {"FirstAssignment", "PlusEqualsToken"} }
    \cup { Delete(first, t) : t \in NestedTargets(<<" ">>) }

\* Expressions no rule fires on.
Untouched(first, w) ==
    { Identifier(first, nV),
      PropertyAccess(Identifier(first, nA), nB),
      ElementAccess(Identifier(first, nA), Identifier(w, nI)),
      Binary(PropertyAccess(Identifier(first, nA), nB), w, "PlusToken",
             NumericLiteral(w, Digit1)),
      Binary(Identifier(first, nV), w, "AsteriskToken",
             Parenthesized(w, Identifier(w, nV))),
      PrefixUnary(first, "MinusToken", Identifier(w, nV)) }

RECURSIVE Inner(_, _)
\* Right-hand sides nested n deep: an assignment (bare or parenthesized),
\* an update or a delete as the right-hand side of an assignment.
Inner(n, w) ==
    IF n = 0 THEN { NumericLiteral(w, Digit1), Identifier(w, nV) }
    ELSE Inner(n - 1, w)
         \cup { Binary(t, w, "FirstAssignment", r) :
                    t \in { PropertyAccess(Identifier(w, nC), nD), Identifier(w, nX) },
                    r \in Inner(n - 1, w) }
         \cup { Parenthesized(w, Binary(t, w, "FirstAssignment", r)) :
                    t \in { PropertyAccess(Identifier(<<>>, nC), nD) },
                    r \in Inner(n - 1, w) }
         \cup { PostfixUnary(PropertyAccess(Identifier(w, nC), nD), "PlusPlusToken"),
                Delete(w, PropertyAccess(Identifier(<<" ">>, nC), nD)) }

NestedAssignments(first, w) ==
    { Binary(t, w, "FirstAssignment", r) :
          t \in { PropertyAccess(Identifier(first, nA), nB), Identifier(first, nX) },
          r \in Inner(MaxNest, w) \ Inner(0, w) }

Expressions(first, w) ==
    Assignments(first, w) \cup Updates(first) \cup Deletes(first)
    \cup Untouched(first, w) \cup NestedAssignments(first, w)
    \cup NestedTargetExpressions(first, w)

\* One statement, every blank of the unit w wide.
OneStatementUnits ==
    { SourceFileTerm(NoLocals, << ExpressionStatement(e, Semi) >>, <<>>) :
          e \in UNION { Expressions(w, w) : w \in Leads } }

\* Two statements on two lines, the first with or without its semicolon.
TwoStatementUnits ==
    { SourceFileTerm(NoLocals,
                     << ExpressionStatement(Identifier(<<>>, nV), s),
                        ExpressionStatement(e, Semi) >>, <<"\n">>) :
          s \in {<<>>, Semi},
          e \in Updates(<<"\n">>) \cup Deletes(<<"\n">>)
                \cup { Binary(t, <<>>, "FirstAssignment", NumericLiteral(<<>>, Digit1)) :
                           t \in Targets(<<"\n">>) }
                \cup { PropertyAccess(Identifier(<<"\n">>, nA), nB) } }

RECURSIVE Underscores(_)
\* The n-th name of the chain assign, _assign, __assign, ...
Underscores(n) == IF n = 0 THEN assign ELSE <<"_">> \o Underscores(n - 1)

Chain(n) == [j \in 1..n |-> Underscores(j - 1)]

\* The node kinds the binder gives a table of locals, with the keyword that
\* declares a local in them and the text that opens them.
ScopeKinds ==
    { "FunctionDeclaration", "FunctionExpression", "ModuleDeclaration",
      "ArrowFunction", "Block" }

VarStatements(lead, keyword, names) ==
    [j \in 1..Len(names) |-> VariableStatement(lead, keyword, names[j])]

MemberAssignmentStatement ==
    ExpressionStatement(
        Binary(PropertyAccess(Identifier(<<>>, nA), nB), <<>>, "FirstAssignment",
               NumericLiteral(<<>>, Digit1)), Semi)

\* The statement `a.b;`, on which no rule fires.
MemberReadStatement ==
    ExpressionStatement(PropertyAccess(Identifier(<<>>, nA), nB), Semi)

\* A statement that opens a scope of the given kind declaring `names`, with
\* the statement `last` in it.
ScopeStatement(kind, names, last) ==
    LET body == VarStatements(<<>>, IF kind = "Block" THEN <<"l", "e", "t">>
                                    ELSE <<"v", "a", "r">>, names)
                \o << last >>
    IN  CASE kind = "FunctionDeclaration" ->
                 Term(kind, "", names, <<"f", "u", "n", "c", "t", "i", "o", "n">>,
                      << Identifier(<<" ">>, nF), Block("Block", NoLocals, <<>>, body) >>,
                      << <<"(", ")">>, <<>> >>)
          [] kind = "FunctionExpression" ->
                 ExpressionStatement(
                     Parenthesized(<<>>,
                         Term(kind, "", names,
                              <<"f", "u", "n", "c", "t", "i", "o", "n", "(", ")">>,
                              << Block("Block", NoLocals, <<>>, body) >>, << <<>> >>)),
                     Semi)
          [] kind = "ModuleDeclaration" ->
                 Term(kind, "", names, <<"n", "a", "m", "e", "s", "p", "a", "c", "e">>,
                      << Identifier(<<" ">>, nF), Block("ModuleBlock", NoLocals, <<>>, body) >>,
                      << <<>>, <<>> >>)
          [] kind = "ArrowFunction" ->
                 ExpressionStatement(
                     Term(kind, "", names, <<"(", ")">>,
                          << Term("EqualsGreaterThanToken", "", NoLocals, <<"=", ">">>,
                                  <<>>, <<>>),
                             Block("Block", NoLocals, <<>>, body) >>,
                          << <<>>, <<>> >>),
                     Semi)
          [] kind = "Block" -> Block("Block", names, <<>>, body)

\* Units that declare a chain of n names at the top level and at most one
\* more name of the chain in a nested scope.
ScopeUnits ==
    { SourceFileTerm(
          Chain(n) \o (IF kind \in {"FunctionDeclaration", "ModuleDeclaration"}
                       THEN <<nF>> ELSE <<>>),
          VarStatements(<<>>, <<"v", "a", "r">>, Chain(n))
              \o << ScopeStatement(kind, inner, last) >>, <<>>) :
          n \in 0..MaxChain,
          kind \in ScopeKinds,
          last \in {MemberAssignmentStatement, MemberReadStatement},
          inner \in {<<>>} \cup { << Underscores(j) >> : j \in 0..MaxChain } }

Units == OneStatementUnits \cup TwoStatementUnits \cup ScopeUnits

UserFile == <<"/", "s", "r", "c", "/", "a", "p", "p", ".", "t", "s">>

FrameworkFile ==
    <<"/", "n", "o", "d", "e", "_", "m", "o", "d", "u", "l", "e", "s", "/",
      "m", "a", "h", "a", "l", "o", "/", "a", ".", "t", "s">>

OtherFile == <<"/", "s", "r", "c", "/", "b", ".", "t", "s">>

(***************************************************************************)
(* Units that declare a class.  The annotation of a member is a comment in *)
(* front of its type, which makes it leading trivia of the type node.      *)
(***************************************************************************)
Comment(body) == <<"/", "*">> \o body \o <<"*", "/">>

TypeKeyword(lead, word) == Term("StringKeyword", "", NoLocals, lead \o word, <<>>, <<>>)

TypeReference(lead, name) ==
    WithRoles(Term("TypeReference", "", NoLocals, <<>>, << Identifier(lead, name) >>,
                   << <<>> >>),
              <<"typeName">>)

\* name[?][: type][ = initializer];  -- type and initializer hold no or one term.
PropertyDeclaration(lead, name, optional, type, initializer) ==
    LET kids  == << Identifier(lead, name) >>
                 \o (IF optional THEN << Term("QuestionToken", "", NoLocals, <<"?">>,
                                              <<>>, <<>>) >>
                     ELSE <<>>)
                 \o type \o initializer
        roles == <<"name">> \o (IF optional THEN <<"questionToken">> ELSE <<>>)
                 \o [i \in 1..Len(type) |-> "type"]
                 \o [i \in 1..Len(initializer) |-> "initializer"]
        after(i) == IF i = Len(kids) THEN <<";">>
                    ELSE IF roles[i + 1] = "type" THEN <<":">>
                    ELSE IF roles[i + 1] = "initializer" THEN <<" ", "=">>
                    ELSE <<>>
    IN  WithRoles(Term("PropertyDeclaration", "", NoLocals, <<>>, kids,
                       [i \in 1..Len(kids) |-> after(i)]),
                  roles)

\* name(p: type){}
MethodDeclaration(lead, name, type) ==
    WithRoles(
        Term("MethodDeclaration", "", NoLocals, <<>>,
             << Identifier(lead, name),
                WithRoles(Term("Parameter", "", NoLocals, <<>>,
                               << Identifier(<<>>, <<"p">>), type >>,
                               << <<":">>, <<>> >>),
                          <<"name", "type">>),
                Term("Block", "", NoLocals, <<"{", "}">>, <<>>, <<>>) >>,
             << <<"(">>, <<")">>, <<>> >>),
        <<"name", "parameters", "body">>)

\* {name: "value"}
ObjectLiteral(lead, name, value) ==
    WithRoles(
        Term("ObjectLiteralExpression", "", NoLocals, lead \o <<"{">>,
             << WithRoles(Term("PropertyAssignment", "", NoLocals, <<>>,
                               << Identifier(<<>>, name), StringLiteral(<<" ">>, value) >>,
                               << <<":">>, <<>> >>),
                          <<"name", "initializer">>) >>,
             << <<"}">> >>),
        <<"properties">>)

\* f("value")
CallExpression(lead, value) ==
    WithRoles(Term("CallExpression", "", NoLocals, <<>>,
                   << Identifier(lead, nF), StringLiteral(<<>>, value) >>,
                   << <<"(">>, <<")">> >>),
              <<"expression", "arguments">>)

\* import B from "module";
ImportDeclaration(name, from) ==
    WithRoles(
        Term("ImportDeclaration", "", NoLocals, <<"i", "m", "p", "o", "r", "t">>,
             << WithRoles(Term("ImportClause", "", NoLocals, <<>>,
                               << Identifier(<<" ">>, name) >>, << <<>> >>),
                          <<"name">>),
                StringLiteral(<<" ">>, from) >>,
             << <<" ", "f", "r", "o", "m">>, <<";">> >>),
        <<"importClause", "moduleSpecifier">>)

\* class name [extends base] {members}  -- base holds no or one name.
ClassDeclaration(lead, name, base, members) ==
    LET heads == << Identifier(<<" ">>, name) >>
                 \o [i \in 1..Len(base) |->
                        WithRoles(
                            Term("HeritageClause", "", NoLocals, <<" ", "e", "x", "t", "e", "n", "d", "s">>,
                                 << WithRoles(
                                        Term("ExpressionWithTypeArguments", "", NoLocals,
                                             <<>>, << Identifier(<<" ">>, base[i]) >>,
                                             << <<>> >>),
                                        <<"expression">>) >>,
                                 << <<>> >>),
                            <<"types">>)]
        kids  == heads \o members
        after(i) == (IF i = Len(heads) THEN <<" ", "{">> ELSE <<>>)
                    \o (IF i = Len(kids) THEN <<"}">> ELSE <<>>)
    IN  WithRoles(Term("ClassDeclaration", "", NoLocals, lead \o <<"c", "l", "a", "s", "s">>, kids,
                       [i \in 1..Len(kids) |-> after(i)]),
                  <<"name">> \o [i \in 1..Len(base) |-> "heritageClauses"]
                  \o [i \in 1..Len(members) |-> "members"])

nClass == <<"C">>
nBase == <<"B">>
nFoo == <<"F", "o", "o">>
nView == <<"v", "i", "e", "w">>
nOther == <<"o", "t", "h", "e", "r">>
nString == <<"s", "t", "r", "i", "n", "g">>
Path == <<".", "/", "v">>

\* The words of the attribute annotation, and two markers that are none.
Modes == { <<"g", "e", "t">>, <<"e", "v", "a", "l">>, <<"w", "a", "t", "c", "h">>, <<"b", "i", "n", "d">> }

\* A member x or x? annotated /* mode */, /* mode al */ or /* modeal */.
AttributeMembers ==
    { PropertyDeclaration(<<>>, nX, optional,
                          << TypeKeyword(<<" ">> \o Comment(<<" ">> \o mode \o alias \o <<" ">>)
                                         \o <<" ">>, nString) >>,
                          <<>>) :
          optional \in BOOLEAN, mode \in Modes,
          alias \in { <<>>, <<" ", "a", "l">>, <<"a", "l">> } }

\* x: /* get */ string;
GetMember ==
    PropertyDeclaration(<<>>, nX, FALSE,
                        << TypeKeyword(<<" ">> \o Comment(<<" ", "g", "e", "t", " ">>) \o <<" ">>, nString) >>,
                        <<>>)

\* x?: /* bind al */ string;
BindAliasMember ==
    PropertyDeclaration(<<>>, nX, TRUE,
                        << TypeKeyword(<<" ">> \o Comment(<<" ", "b", "i", "n", "d", " ", "a", "l", " ">>) \o <<" ">>, nString) >>,
                        <<>>)

TwoAttributeMembers == { GetMember, BindAliasMember }

AnnotatedMember(name, marker, type(_)) ==
    PropertyDeclaration(<<>>, name, FALSE, << type(<<" ">> \o Comment(marker) \o <<" ">>) >>,
                        <<>>)

\* i: /* inject */ Foo;
InjectMember ==
    AnnotatedMember(nI, <<" ", "i", "n", "j", "e", "c", "t", " ">>, LAMBDA lead : TypeReference(lead, nFoo))

\* k: /* inject */ string;  -- the annotated type is no type reference
InjectKeywordMember ==
    AnnotatedMember(nK, <<" ", "i", "n", "j", "e", "c", "t", " ">>, LAMBDA lead : TypeKeyword(lead, nString))

\* d: /* local */ string;
LocalMember ==
    AnnotatedMember(nD, <<" ", "l", "o", "c", "a", "l", " ">>, LAMBDA lead : TypeKeyword(lead, nString))

\* k: /* local */ string;
SecondLocalMember ==
    AnnotatedMember(nK, <<" ", "l", "o", "c", "a", "l", " ">>, LAMBDA lead : TypeKeyword(lead, nString))

\* v: /* get Al */ string;  -- the alias is not one the pattern takes
UpperCaseMember ==
    AnnotatedMember(nV, <<" ", "g", "e", "t", " ", "A", "l", " ">>, LAMBDA lead : TypeKeyword(lead, nString))

\* b: string;
PlainMember ==
    PropertyDeclaration(<<>>, nB, FALSE, << TypeKeyword(<<" ">>, nString) >>, <<>>)

\* f(p: /* bind */ string){}
AnnotatedMethod ==
    MethodDeclaration(<<>>, nF, TypeKeyword(<<" ">> \o Comment(<<" ", "b", "i", "n", "d", " ">>) \o <<" ">>, nString))

\* view = "./v";  (and with no blank after the "=")
ViewMember(lead) ==
    PropertyDeclaration(<<>>, nView, FALSE, <<>>, << StringLiteral(lead, Path) >>)

\* other = "./v";
OtherMember ==
    PropertyDeclaration(<<>>, nOther, FALSE, <<>>, << StringLiteral(<<" ">>, Path) >>)

\* other = {view: "./v"};
ObjectMember ==
    PropertyDeclaration(<<>>, nOther, FALSE, <<>>, << ObjectLiteral(<<" ">>, nView, Path) >>)

\* other = f("./v");
CallMember ==
    PropertyDeclaration(<<>>, nOther, FALSE, <<>>, << CallExpression(<<" ">>, Path) >>)

\* The member lists of the classes: one attribute member of every form,
\* members of different kinds together, in both orders.
MemberLists ==
    { << m >> : m \in AttributeMembers }
    \cup
    { <<>>,
      << InjectMember >>, << InjectKeywordMember >>, << LocalMember >>,
      << UpperCaseMember >>, << PlainMember >>, << AnnotatedMethod >>,
      << ViewMember(<<" ">>) >>, << ViewMember(<<>>) >>, << OtherMember >>,
      << ObjectMember >>, << CallMember >>,
      << InjectMember, LocalMember, ViewMember(<<" ">>) >>,
      << LocalMember, PlainMember, InjectMember >>,
      << AnnotatedMethod, LocalMember >>,
      << GetMember, BindAliasMember >>, << LocalMember, SecondLocalMember >> }
    \cup
    { << first, second >> :
          first \in TwoAttributeMembers,
          second \in { InjectMember, LocalMember, AnnotatedMethod } }
    \cup
    { << first, second >> :
          first \in { InjectMember, LocalMember, UpperCaseMember },
          second \in TwoAttributeMembers }

\* The member lists every kind of table can come from.
MixedLists ==
    { list \in MemberLists : Len(list) >= 2 }
    \cup { <<>>, << ViewMember(<<" ">>) >>, << OtherMember >>, << ObjectMember >>,
           << CallMember >> }

\* What the checker knows of the class of a unit and of the classes above
\* it: the class extends nothing, extends the base class of a framework
\* module, extends it through a class of the user, or extends a class of
\* the user that has the framework's name.
UnitChains ==
    { << Class(default, UserFile, "ClassDeclaration", <<>>, 0) >> }
    \cup
    { << Class(default, UserFile, "ClassDeclaration", <<"ExtendsKeyword">>, 2),
         Class(default, SentinelPath(from), "ClassDeclaration", <<>>, 0) >> :
          from \in {coreComponent, coreBehavior, componentsRoute} }
    \cup
    { << Class(default, UserFile, "ClassDeclaration", <<"ExtendsKeyword">>, 2),
         Class(default, OtherFile, "ClassDeclaration", <<"ExtendsKeyword">>, 3),
         Class(default, SentinelPath(from), "ClassDeclaration", <<>>, 0) >> :
          from \in {coreComponent, componentsRoute} }
    \cup
    { << Class(default, UserFile, "ClassDeclaration", <<"ExtendsKeyword">>, 2),
         Class(default, OtherFile, "ClassDeclaration", <<>>, 0) >> }

\* The unit of a class: an import of the base class when there is one, then
\* the class.
ClassUnit(chain, members) ==
    LET extends_ == chain[1].heritageClauses # <<>>
    IN  SourceFileTerm(
            << nClass >> \o (IF extends_ THEN << nBase >> ELSE <<>>),
            (IF extends_ THEN << ImportDeclaration(nBase, Path) >> ELSE <<>>)
            \o << ClassDeclaration(<<>>, nClass, IF extends_ THEN << nBase >> ELSE <<>>,
                                   members) >>,
            <<>>)

\* Every member list below the component class, the mixed ones below every
\* chain.
ClassModules ==
    { [fileName |-> UserFile, classes |-> chain, unit |-> ClassUnit(chain, members)] :
          chain \in { c \in UnitChains : Len(c) = 2
                                         /\ c[2].fileName = SentinelPath(coreComponent) },
          members \in MemberLists }
    \cup
    { [fileName |-> UserFile, classes |-> chain, unit |-> ClassUnit(chain, members)] :
          chain \in UnitChains, members \in MixedLists }

\* What resolveModuleName and getProgram hand to a run: a file, its unit
\* and what the checker knows of the unit's class.
Modules ==
    { [fileName |-> UserFile, classes |-> <<>>, unit |-> u] : u \in Units }
    \cup
    { [fileName |-> FrameworkFile, classes |-> <<>>,
       unit |-> SourceFileTerm(NoLocals, << MemberAssignmentStatement >>, <<>>)] }
    \cup ClassModules


(***************************************************************************)
(* Chunks of output text.  Every character of a chunk carries, beside the  *)
(* character c, the place o it was read from: the 1-based index into the   *)
(* unit's text for text taken from the source, 0 for text the program      *)
(* writes itself.  No operation of the program reads o.  sourceText holds  *)
(* such characters, originalText (sourceFile.text) plain ones.             *)
(***************************************************************************)
Lit(chars) == [n \in 1..Len(chars) |-> [c |-> chars[n], o |-> 0]]

\* The unit's text as the run holds it: every character with its own place.
Tagged(text) == [n \in 1..Len(text) |-> [c |-> text[n], o |-> n]]

\* sourceText.substr(start, length)
Src(start, length) == Substr(sourceText, start, length)

Chars(chunk) == [n \in 1..Len(chunk) |-> chunk[n].c]

\* node.getFullText()
getFullText(node) == Substr(Tagged(originalText), node.pos, node.end - node.pos)

\* node.getText()
getText(node) ==
    Substr(Tagged(originalText), getStart(node), node.end - getStart(node))

RECURSIVE Escaped(_)
Escaped(chunk) ==
    IF chunk = <<>> THEN <<>>
    ELSE (IF Head(chunk).c \in {"\"", "\\"} THEN Lit(<<"\\">>) ELSE <<>>)
         \o <<Head(chunk)>> \o Escaped(Tail(chunk))

\* JSON.stringify of a string without control characters.
JSONstringify(chunk) == Lit(<<"\"">>) \o Escaped(chunk) \o Lit(<<"\"">>)

(***************************************************************************)
(* SourceNode of the source-map library: an anchor (line, column, source)  *)
(* and children, each a chunk of text or a SourceNode.                     *)
(***************************************************************************)
SourceNode(line, column, source) ==
    [isNode |-> TRUE, line |-> line, column |-> column, source |-> source,
     text |-> <<>>, children |-> <<>>]

Chunk(text) ==
    [isNode |-> FALSE, line |-> 0, column |-> 0, source |-> <<>>,
     text |-> text, children |-> <<>>]

\* SourceNode.prototype.add of a string: an empty string is not added.
addText(sn, text) ==
    IF text = <<>> THEN sn ELSE [sn EXCEPT !.children = Append(@, Chunk(text))]

\* SourceNode.prototype.add of a SourceNode.
addNode(sn, child) == [sn EXCEPT !.children = Append(@, child)]

\* SourceNode.prototype.prepend of a string.
prependText(sn, text) ==
    IF text = <<>> THEN sn ELSE [sn EXCEPT !.children = <<Chunk(text)>> \o @]

RECURSIVE Flatten(_)
RECURSIVE FlattenAll(_)
\* SourceNode.prototype.toString: the text of a fragment, left to right.
Flatten(item) == IF item.isNode THEN FlattenAll(item.children) ELSE item.text

FlattenAll(items) ==
    IF items = <<>> THEN <<>> ELSE Flatten(Head(items)) \o FlattenAll(Tail(items))

(***************************************************************************)
(* The tree walk of mahaloTranspiler.  createSourceNode and findEdits      *)
(* return the fragment they built or finished (sn) and whether they set    *)
(* shouldImportAssign (import).                                            *)
(***************************************************************************)
isMemberKind(node) ==
    node.kind = "PropertyAccessExpression" \/ node.kind = "ElementAccessExpression"

\* A walk that forgets the width of the child it has just added.
afterChildKeepsStart(childStart, child) == childStart

\* createSourceNode, line 191: where the text after a child starts.
afterChild(childStart, child) == childStart + getFullWidth(child)

\* createSourceNode, lines 196-198: the text after the last child.
tailText(start, end) == Src(start, end - start)

\* createAssignment, lines 238-241: the left side and the operator of a
\* compound assignment, as added in front of the value.
compoundPrefix(left, operatorToken) ==
    << getText(left), <<getText(operatorToken)[1]>> >>

\* A postfix update that undoes the update in the wrong direction.
postfixSuffixSameSign(operator) ==
    IF operator = "+" THEN Lit(<<" ", "+", " ", "1", ")">>)
    ELSE Lit(<<" ", "-", " ", "1", ")">>)

\* createUpdateAssignment, line 286: what follows the call of a postfix update.
postfixSuffix(operator) ==
    IF operator = "+" THEN Lit(<<" ", "-", " ", "1", ")">>)
    ELSE Lit(<<" ", "+", " ", "1", ")">>)

\* The text `hook(object, key, ` of lines 222-234 (and 267-279), empty for a
\* node that is neither kind of member access.
callHead(member) ==
    IF member.kind = "PropertyAccessExpression"
    THEN Lit(assignIdentifier \o <<"(">>) \o getText(member.children[1])
         \o Lit(<<",", " ">>) \o JSONstringify(getText(member.children[2]))
         \o Lit(<<",", " ">>)
    ELSE IF member.kind = "ElementAccessExpression"
    THEN Lit(assignIdentifier \o <<"(">>) \o getText(member.children[1])
         \o Lit(<<",", " ">>) \o getText(member.children[2])
         \o Lit(<<",", " ">>)
    ELSE <<>>

\* A call of findEdits or createSourceNode on a node, as the walk records it.
Call(function, node) ==
    [call |-> function, kind |-> node.kind, pos |-> node.pos, end |-> node.end]

\* The child a node holds in one of its properties; NoNode when it holds none.
childAt(node, role) ==
    LET held == { n \in 1..Len(node.children) : node.children[n].role = role }
    IN  IF held = {} THEN NoNode ELSE node.children[CHOOSE n \in held : TRUE]

\* Line 7 and line 9: /\/\*\s*word\s*\*\//.test(text)
matchMarker(word, text) ==
    \E k \in 0..(Len(text) - 1) :
        /\ StartsWith(text, k, <<"/", "*">>)
        /\ StartsWith(text, skipWhiteSpace(text, k + 2), word)
        /\ StartsWith(text, skipWhiteSpace(text, skipWhiteSpace(text, k + 2) + Len(word)),
                      <<"*", "/">>)

matchInject(text) == matchMarker(<<"i", "n", "j", "e", "c", "t">>, text)

matchLocal(text) == matchMarker(<<"l", "o", "c", "a", "l">>, text)

\* A table of codes with those of watch and bind exchanged.
attributeAccessorsExchanged(type) ==
    CASE type = <<"g", "e", "t">> -> <<>>
      [] type = <<"e", "v", "a", "l">> -> <<"?">>
      [] type = <<"w", "a", "t", "c", "h">> -> <<":">>
      [] type = <<"b", "i", "n", "d">> -> <<".">>

\* Lines 11-16.
attributeAccessors(type) ==
    CASE type = <<"g", "e", "t">> -> <<>>
      [] type = <<"e", "v", "a", "l">> -> <<"?">>
      [] type = <<"w", "a", "t", "c", "h">> -> <<".">>
      [] type = <<"b", "i", "n", "d">> -> <<":">>

NoMatch == [found |-> FALSE, type |-> <<>>, name |-> <<>>]

\* The mode word of line 8 the text has at an offset; <<>> when it has none.
typeAt(text, pos) ==
    IF StartsWith(text, pos, <<"g", "e", "t">>) THEN <<"g", "e", "t">>
    ELSE IF StartsWith(text, pos, <<"e", "v", "a", "l">>) THEN <<"e", "v", "a", "l">>
    ELSE IF StartsWith(text, pos, <<"w", "a", "t", "c", "h">>) THEN <<"w", "a", "t", "c", "h">>
    ELSE IF StartsWith(text, pos, <<"b", "i", "n", "d">>) THEN <<"b", "i", "n", "d">>
    ELSE <<>>

RECURSIVE endOfName(_, _)
\* [a-z0-9-]* from an offset on: the offset after it.
endOfName(text, pos) ==
    IF pos < Len(text) /\ text[pos + 1] \in LowerCase \cup Digits \cup {"-"}
    THEN endOfName(text, pos + 1)
    ELSE pos

\* \s*\*\/ after the name that ends at offset last; match[2] starts at
\* offset after, with the white space in front of the name.
matchClose(text, type, after, last) ==
    IF StartsWith(text, skipWhiteSpace(text, last), <<"*", "/">>)
    THEN [found |-> TRUE, type |-> type, name |-> SubSeq(text, after + 1, last)]
    ELSE NoMatch

\* (\s*[a-z][a-z0-9-]*)?\s*\*\/ after the mode word: first is the offset
\* after the white space that follows the word.
matchName(text, type, after, first) ==
    IF type = <<>> THEN NoMatch
    ELSE IF first < Len(text) /\ text[first + 1] \in LowerCase
    THEN matchClose(text, type, after, endOfName(text, first))
    ELSE IF StartsWith(text, first, <<"*", "/">>)
    THEN [found |-> TRUE, type |-> type, name |-> <<>>]
    ELSE NoMatch

\* (get|eval|watch|bind) and what follows it, the word at offset pos.
matchType(text, type, pos) ==
    matchName(text, type, pos + Len(type), skipWhiteSpace(text, pos + Len(type)))

\* \/\*\s* and what follows it, at offset pos.
matchComment(text, pos) ==
    IF StartsWith(text, pos, <<"/", "*">>)
    THEN matchType(text, typeAt(text, skipWhiteSpace(text, pos + 2)),
                   skipWhiteSpace(text, pos + 2))
    ELSE NoMatch

\* Line 8: the match of the pattern that starts at offset k, where
\* match[1] is `type` and match[2] `name` (empty when the group took no part).
matchAttributeAccessorAt(text, k) ==
    IF StartsWith(text, k, <<":">>)
    THEN matchComment(text, skipWhiteSpace(text, k + 1))
    ELSE NoMatch

RECURSIVE matchAttributeAccessorFrom(_, _)
\* The first match at or after offset k.
matchAttributeAccessorFrom(text, k) ==
    IF k >= Len(text) THEN NoMatch
    ELSE IF matchAttributeAccessorAt(text, k).found THEN matchAttributeAccessorAt(text, k)
    ELSE matchAttributeAccessorFrom(text, k + 1)

\* matchAttributeAccessor.exec(text): the leftmost match.
matchAttributeAccessor(text) == matchAttributeAccessorFrom(text, 0)

\* String.prototype.trim
trim(text) ==
    LET inked == { n \in 1..Len(text) : text[n] \notin WhiteSpace }
    IN  IF inked = {} THEN <<>>
        ELSE SubSeq(text, CHOOSE n \in inked : \A q \in inked : n <= q,
                    CHOOSE n \in inked : \A q \in inked : q <= n)

RECURSIVE join(_, _)
\* Array.prototype.join
join(items, separator) ==
    IF items = <<>> THEN <<>>
    ELSE IF Len(items) = 1 THEN items[1]
    ELSE items[1] \o separator \o join(Tail(items), separator)

\* The members createInject, createAttributes and createLocals hand on.
PropertyDeclarations(node) ==
    SelectSeq(node.children, LAMBDA child : child.kind = "PropertyDeclaration")

\* storeInjection: the entries one member adds.
storeInjection(node) ==
    LET marked == SelectSeq(node.children,
                            LAMBDA childNode :
                                /\ childNode.kind = "TypeReference"
                                /\ matchInject(Chars(getFullText(childNode))))
    IN  [n \in 1..Len(marked) |->
            << getText(childAt(node, "name")), getText(marked[n]) >>]

\* Lines 423-431: the entry of a member with a match.
attributeOf(node, match) ==
    IF ~match.found THEN <<>>
    ELSE << << JSONstringify(getText(childAt(node, "name"))
                             \o (IF childAt(node, "questionToken") # NoNode
                                 THEN Lit(<<"?">>) ELSE <<>>)),
               JSONstringify(Lit(attributeAccessors(match.type) \o trim(match.name))) >> >>

\* storeAttribute: the entries one member adds (one or none).
storeAttribute(node) == attributeOf(node, matchAttributeAccessor(Chars(getText(node))))

\* storeLocal: the entries one member adds (one or none).
storeLocal(node) ==
    IF matchLocal(Chars(getText(node)))
    THEN << JSONstringify(getText(childAt(node, "name"))) >>
    ELSE <<>>

\* Lines 398-400.
appendProperty(property, value, sourceNode) ==
    addText(sourceNode,
            property \o Lit(<<" ", "=", " ">>) \o property
            \o Lit(<<" ", "?", " ", "O", "b", "j", "e", "c", "t", ".", "a", "s", "s", "i", "g", "n", "(">>) \o property \o Lit(<<",", " ">>) \o value
            \o Lit(<<")", " ", ":", " ">>) \o value \o Lit(<<";">>))

\* ts.forEachChild over a class with a store function: what the function
\* stores for the property declarations, in their order.
stored(members, store(_)) == Concat([n \in 1..Len(members) |-> store(members[n])])

\* [key, value] pairs as key:value texts.
pairs(entries) == [n \in 1..Len(entries) |-> join(entries[n], Lit(<<":">>))]

\* The statement for a table, when the table has entries.
appendTable(node, property, open, entries, close, sourceNode) ==
    IF entries = <<>> THEN sourceNode
    ELSE appendProperty(getText(childAt(node, "name")) \o Lit(property),
                        Lit(open) \o join(entries, Lit(<<",">>)) \o Lit(close),
                        sourceNode)

createInject(node, sourceNode) ==
    appendTable(node, <<".", "i", "n", "j", "e", "c", "t">>, <<"{">>,
                pairs(stored(PropertyDeclarations(node), storeInjection)), <<"}">>,
                sourceNode)

createAttributes(node, sourceNode) ==
    appendTable(node, <<".", "a", "t", "t", "r", "i", "b", "u", "t", "e", "s">>, <<"{">>,
                pairs(stored(PropertyDeclarations(node), storeAttribute)), <<"}">>,
                sourceNode)

createLocals(node, sourceNode) ==
    appendTable(node, <<".", "l", "o", "c", "a", "l", "s">>, <<"[">>,
                stored(PropertyDeclarations(node), storeLocal), <<"]">>,
                sourceNode)

createView(node, sourceNode) ==
    LET view == getText(node)
    IN  addText([sourceNode EXCEPT !.children = <<>>],
                Lit(<<"(", ")", " ", "=", ">", " ", "n", "e", "w", " ", "P", "r", "o", "m", "i", "s", "e", "(", "r", "e", "s", "o", "l", "v", "e", " ", "=", ">", " ", "r", "e", "q", "u", "i", "r", "e", ".", "e", "n", "s", "u", "r", "e", "(">>) \o view \o Lit(<<",", " ">>)
                \o Lit(<<"r", "e", "q", "u", "i", "r", "e", " ", "=", ">", " ", "r", "e", "s", "o", "l", "v", "e", "(", "r", "e", "q", "u", "i", "r", "e", "(">>) \o view \o Lit(<<")", ".", "d", "e", "f", "a", "u", "l", "t", ")", ")", ")">>))

\* The place in classes of a class declaration of the unit (a unit of the
\* model declares one class).
classOf(node) == 1

\* Lines 147-150: the test that guards createInject.
isInjectable(node) ==
    \/ extendsClass(classOf(node), default, coreComponent) = "true"
    \/ extendsClass(classOf(node), default, coreBehavior) = "true"

\* A test that takes a class below the behavior module for a component too.
isComponentOrBehaviorClass(node) ==
    \/ extendsClass(classOf(node), default, coreComponent) = "true"
    \/ extendsClass(classOf(node), default, coreBehavior) = "true"

\* Line 154: the test that guards createLocals and createAttributes.
isComponent(node) == extendsClass(classOf(node), default, coreComponent) = "true"

\* A test that takes every initializer of a class below the route module.
isRouteViewOfAnyName(node) ==
    /\ node.role = "initializer"
    /\ node.up.upKind = "ClassDeclaration"
    /\ extendsClass(1, default, componentsRoute) = "true"

\* Lines 162-172: the test that guards createView; node.parent is the
\* property, node.parent.parent the class.
isRouteView(node) ==
    /\ node.role = "initializer"
    /\ Chars(getText(node.up.name)) = <<"v", "i", "e", "w">>
    /\ node.up.upKind = "ClassDeclaration"
    /\ extendsClass(1, default, componentsRoute) = "true"

RECURSIVE createSourceNode(_)
RECURSIVE findEdits(_)

createAssignment(node, built) ==
    LET left          == node.children[1]
        operatorToken == node.children[2]
        right         == node.children[3]
    IN  IF ~isMemberKind(left)
        THEN [sn |-> addText(prependText(built.sn, Lit(assignIdentifier \o <<"(">>)),
                             Lit(<<")">>)),
              import |-> TRUE, log |-> built.log]
        ELSE LET value == createSourceNode(right)
                 start == getFullStart(node)
                 s0 == [built.sn EXCEPT !.children = <<>>]
                 s1 == addText(s0, Src(start, getStart(node) - start))
                 s2 == addText(s1, callHead(left))
                 s3 == IF operatorToken.kind # "FirstAssignment"
                       THEN LET added == compoundPrefix(left, operatorToken)
                            IN  addText(addText(s2, added[1]), added[2])
                       ELSE s2
                 s4 == addText(addNode(s3, value.sn), Lit(<<")">>))
             IN  [sn |-> s4, import |-> TRUE, log |-> built.log \o value.log]

createUpdateAssignment(node, built) ==
    LET operand == node.children[1]
    IN  IF ~isMemberKind(operand)
        THEN [sn |-> addText(prependText(built.sn, Lit(assignIdentifier \o <<"(">>)),
                             Lit(<<")">>)),
              import |-> TRUE, log |-> built.log]
        ELSE LET operator == IF node.operator = "PlusPlusToken" THEN "+" ELSE "-"
                 value == getText(operand) \o Lit(<<" ", operator, " ", "1">>)
                 start == getFullStart(node)
                 s0 == [built.sn EXCEPT !.children = <<>>]
                 s1 == addText(s0, Src(start, getStart(node) - start))
                 s2 == addText(s1, callHead(operand))
                 s3 == addText(s2, value \o Lit(<<")">>))
                 s4 == IF node.kind = "PostfixUnaryExpression"
                       THEN addText(prependText(s3, Lit(<<"(">>)), postfixSuffix(operator))
                       ELSE s3
             IN  [sn |-> s4, import |-> TRUE, log |-> built.log]

\* node is the member access a delete expression is applied to, parent the
\* delete expression (node.parent).
createDeleteAssignment(node, parent, built) ==
    IF ~isMemberKind(node)
    THEN [sn |-> addText(prependText(built.sn, Lit(assignIdentifier \o <<"(">>)),
                         Lit(<<")">>)),
          import |-> TRUE, log |-> built.log]
    ELSE LET start == getFullStart(parent)
             s0 == [built.sn EXCEPT !.children = <<>>]
             s1 == addText(s0, Src(start, getStart(parent) - start))
             s2 == IF node.kind = "PropertyAccessExpression"
                   THEN addText(s1, Lit(assignIdentifier \o <<"(">>)
                                    \o getText(node.children[1]) \o Lit(<<",", " ">>)
                                    \o JSONstringify(getText(node.children[2]))
                                    \o Lit(<<")">>))
                   ELSE IF node.kind = "ElementAccessExpression"
                   THEN addText(s1, Lit(assignIdentifier \o <<"(">>)
                                    \o getText(node.children[1]) \o Lit(<<",", " ">>)
                                    \o getText(node.children[2])
                                    \o Lit(<<")">>))
                   ELSE s1
         IN  [sn |-> s2, import |-> TRUE, log |-> built.log]

\* Lines 146-159: the tables of a class declaration.
createTables(node, built) ==
    LET injected == IF isInjectable(node) THEN createInject(node, built.sn) ELSE built.sn
        tabled   == IF isComponent(node)
                    THEN createAttributes(node, createLocals(node, injected))
                    ELSE injected
    IN  [built EXCEPT !.sn = tabled]

\* findEdits returns, with the fragment and the flag, the calls of
\* findEdits and createSourceNode it made, itself first (log).
\* Lines 101-175: the switch of findEdits over the kind of the node, with
\* the fragment createSourceNode built for the node.
switch(node, built) ==
    CASE node.kind = "BinaryExpression"
         /\ node.children[2].kind \in AssignmentTokens ->
             createAssignment(node, built)
      [] node.kind \in {"PrefixUnaryExpression", "PostfixUnaryExpression"}
         /\ node.operator \in {"PlusPlusToken", "MinusMinusToken"} ->
             createUpdateAssignment(node, built)
      [] node.kind = "DeleteExpression" /\ isMemberKind(node.children[1]) ->
             createDeleteAssignment(node.children[1], node, built)
      [] node.kind = "ClassDeclaration" -> createTables(node, built)
      [] node.kind = "StringLiteral" /\ isRouteView(node) ->
             [built EXCEPT !.sn = createView(node, built.sn)]
      [] OTHER -> built

findEdits(node) ==
    [switch(node, createSourceNode(node)) EXCEPT
        !.log = << Call("findEdits", node) >> \o @]

\* The fragment of a node, given what findEdits returned for each of its
\* children (edited): the callback of ts.forEachChild adds, for each
\* child, the text between the end of the child before it and the child,
\* then the child's fragment; the text after the last child follows.
forEachChild(node, edited) ==
    LET start    == getFullStart(node)
        end      == start + getFullWidth(node)
        position == getLineAndCharacterOfPosition(originalText, start)
        count    == Len(node.children)
        startAt(n) == IF n = 1 THEN start
                      ELSE afterChild(getFullStart(node.children[n - 1]),
                                      node.children[n - 1])
        added    == [m \in 1..(2 * count) |->
                        IF m % 2 = 1
                        THEN Chunk(Src(startAt((m + 1) \div 2),
                                       getFullStart(node.children[(m + 1) \div 2])
                                       - startAt((m + 1) \div 2)))
                        ELSE edited[m \div 2].sn]
        tail     == Chunk(tailText(startAt(count + 1), end))
        kept     == SelectSeq(added \o <<tail>>,
                              LAMBDA item : item.isNode \/ item.text # <<>>)
    IN  [sn     |-> [SourceNode(position.line + 1, position.character, fileName)
                        EXCEPT !.children = kept],
         import |-> \E n \in 1..count : edited[n].import,
         log    |-> << Call("createSourceNode", node) >>
                    \o Concat([n \in 1..count |-> edited[n].log])]

\* Lines 178-201, with what findEdits returned for every child.
createSourceNode(node) ==
    forEachChild(node, <<>> \o [n \in 1..Len(node.children) |-> findEdits(node.children[n])])


(***************************************************************************)
(* Position maps.  A map is [defined, sources, mappings]; a mapping is     *)
(* [generated, original, source] with positions [line, column], lines      *)
(* counted from 1 and columns from 0 as the source-map library does.       *)
(***************************************************************************)
NoMap == [defined |-> FALSE, sources |-> {}, mappings |-> {}]

Mapping(generatedLine, generatedColumn, originalLine, originalColumn, source) ==
    [generated |-> [line |-> generatedLine, column |-> generatedColumn],
     original  |-> [line |-> originalLine, column |-> originalColumn],
     source    |-> source]

RECURSIVE walk(_, _)
\* SourceNode.prototype.walk: the chunks of a fragment in order, each with
\* the anchor of the SourceNode that holds it.
walk(items, parent) ==
    IF items = <<>> THEN <<>>
    ELSE (IF Head(items).isNode
          THEN walk(Head(items).children, Head(items))
          ELSE << [chunk |-> Head(items).text, line |-> parent.line,
                   column |-> parent.column, source |-> parent.source] >>)
         \o walk(Tail(items), parent)

\* The loop over the characters of a chunk in toStringWithSourceMap: every
\* line break moves to the next line; one that ends the chunk forgets the
\* last original position, the others repeat the chunk's mapping on the
\* new line (sourceMappingActive holds from the start of the chunk on).
advance(g, piece) ==
    LET breaks == { n \in 1..Len(piece.chunk) : piece.chunk[n].c = "\n" }
        inner  == breaks \ {Len(piece.chunk)}
        last   == IF breaks = {} THEN 0
                  ELSE CHOOSE n \in breaks : \A q \in breaks : q <= n
        Before(n) == Cardinality({ q \in breaks : q <= n })
    IN  [g EXCEPT
           !.line = @ + Cardinality(breaks),
           !.column = IF breaks = {} THEN @ + Len(piece.chunk)
                      ELSE Len(piece.chunk) - last,
           !.mappings = IF g.active
                        THEN @ \cup { Mapping(g.line + Before(n), 0, piece.line,
                                               piece.column, piece.source) :
                                          n \in inner }
                        ELSE @,
           !.hasLast = IF Len(piece.chunk) \in breaks THEN FALSE ELSE @,
           !.active  = IF Len(piece.chunk) \in breaks THEN FALSE ELSE @]

RECURSIVE generate(_, _)
\* The callback of walk in toStringWithSourceMap, over the pieces in order.
generate(g, pieces) ==
    IF pieces = <<>> THEN g
    ELSE LET piece == Head(pieces)
             fresh == ~g.hasLast \/ g.lastSource # piece.source
                      \/ g.lastLine # piece.line \/ g.lastColumn # piece.column
             g1 == [g EXCEPT
                      !.code = @ \o piece.chunk,
                      !.mappings = IF fresh
                                   THEN @ \cup { Mapping(g.line, g.column, piece.line,
                                                          piece.column, piece.source) }
                                   ELSE @,
                      !.hasLast = TRUE, !.lastSource = piece.source,
                      !.lastLine = piece.line, !.lastColumn = piece.column,
                      !.active = TRUE]
         IN  generate(advance(g1, piece), Tail(pieces))

\* SourceNode.prototype.toStringWithSourceMap
toStringWithSourceMap(sn) ==
    LET g == generate([code |-> <<>>, line |-> 1, column |-> 0, mappings |-> {},
                       hasLast |-> FALSE, lastSource |-> <<>>, lastLine |-> 0,
                       lastColumn |-> 0, active |-> FALSE],
                      walk(sn.children, sn))
    IN  [code |-> g.code,
         map  |-> [defined |-> TRUE,
                   sources |-> { m.source : m \in g.mappings },
                   mappings |-> g.mappings]]

NoPosition == [found |-> FALSE, source |-> <<>>, line |-> 0, column |-> 0]

\* SourceMapConsumer.prototype.originalPositionFor: the mapping of the
\* needle's line with the greatest column not after the needle's.
originalPositionFor(map, needle) ==
    LET onLine == { m \in map.mappings : m.generated.line = needle.line
                                         /\ m.generated.column <= needle.column }
    IN  IF onLine = {} THEN NoPosition
        ELSE LET m == CHOOSE m \in onLine :
                          \A n \in onLine : n.generated.column <= m.generated.column
             IN  [found |-> TRUE, source |-> m.source,
                  line |-> m.original.line, column |-> m.original.column]

\* mergeSourceMaps(mahaloMap, typescriptMap)
mergeSourceMaps(mahaloMap, typescriptMap) ==
    IF ~mahaloMap.defined THEN typescriptMap
    ELSE [defined  |-> TRUE,
          sources  |-> mahaloMap.sources,
          mappings |->
              { Mapping(m.generated.line, m.generated.column,
                        originalPositionFor(mahaloMap, m.original).line,
                        originalPositionFor(mahaloMap, m.original).column,
                        m.source) :
                    m \in { n \in typescriptMap.mappings :
                                originalPositionFor(mahaloMap, n.original).found } }]

(***************************************************************************)
(* The cache of programs.  The front end (ts.createProgram) is not part of *)
(* the repository: a program is what it read when it was made, a function  *)
(* from the names of its source files to what each held on disk then (the  *)
(* unit, and what the checker knows of its classes).  The source files of  *)
(* a program are its root and the files on disk that declare the classes   *)
(* above the classes of the root.                                          *)
(***************************************************************************)
\* Line 477: fileName.replace(/\\/g, '/')
replaceBackslashes(name) ==
    [n \in 1..Len(name) |-> IF name[n] = "\\" THEN "/" ELSE name[n]]

\* The names of the files ts.createProgram reads for a root.
sourceFilesOf(name) ==
    {name}
    \cup ({ disk[name].classes[j].fileName : j \in 1..Len(disk[name].classes) }
          \cap DOMAIN disk)

\* Line 493: ts.createProgram([fileName], compilerOptions, createCompilerHost())
createProgram(name) == [read \in sourceFilesOf(name) |-> disk[read]]

\* Lines 482-486: the cached programs one of whose source files has the name.
covering(cache, name) == { n \in 1..Len(cache) : name \in DOMAIN cache[n] }

\* The forEach of line 481 assigns `program` at every such program: the
\* last of them is the one it is left with.
lastOf(places) == CHOOSE n \in places : \A q \in places : q <= n

\* Line 490: cachedPrograms.length > 4 && cachedPrograms.shift()
shift(cache) == IF Len(cache) > 4 THEN Tail(cache) ELSE cache

\* The program line 490 takes out of the cache; <<>> when it takes none.
shifted(cache) == IF Len(cache) > 4 THEN Head(cache) ELSE <<>>

\* A cache that takes out its oldest program only when it holds more than
\* five.
missLate(cache, name) ==
    [program |-> createProgram(name),
     cachedPrograms |-> Append(IF Len(cache) > 5 THEN Tail(cache) ELSE cache,
                               createProgram(name)),
     removed |-> IF Len(cache) > 5 THEN Head(cache) ELSE <<>>]

\* Lines 489-495: no cached program has the file.
miss(cache, name) ==
    [program |-> createProgram(name),
     cachedPrograms |-> Append(shift(cache), createProgram(name)),
     removed |-> shifted(cache)]

\* A cache that moves the program it finds to the end.
hitMovesToEnd(cache, place) ==
    [program |-> cache[place],
     cachedPrograms |-> Append(SelectSeq(cache, LAMBDA cached : cached # cache[place]),
                               cache[place]),
     removed |-> <<>>]

\* Lines 481-489: a cached program has the file.
hit(cache, place) ==
    [program |-> cache[place], cachedPrograms |-> cache, removed |-> <<>>]

\* Lines 476-498 for a name without backslashes.
lookup(cache, name) ==
    IF covering(cache, name) # {}
    THEN hit(cache, lastOf(covering(cache, name)))
    ELSE miss(cache, name)

\* getProgram(fileName): the program it returns, the cache it leaves and
\* the program it took out of the cache.
getProgram(cache, name) == lookup(cache, replaceBackslashes(name))

\* What cacheCall keeps of a call.
CacheCall(call, name, got) ==
    [call |-> call, fileName |-> name, program |-> got.program,
     removed |-> got.removed]

NoCall == [call |-> "", fileName |-> <<>>, program |-> <<>>, removed |-> <<>>]

(***************************************************************************)
(* mahaloTranspiler, step by step.                                         *)
(***************************************************************************)
RECURSIVE findIdentifiers(_)
RECURSIVE findIdentifiersIn(_)
findIdentifiers(node) ==
    (IF node.kind \in {"SourceFile", "ModuleDeclaration", "FunctionDeclaration",
                       "FunctionExpression"}
     THEN node.locals ELSE <<>>)
    \o findIdentifiersIn(node.children)

findIdentifiersIn(nodes) ==
    IF nodes = <<>> THEN <<>>
    ELSE findIdentifiers(Head(nodes)) \o findIdentifiersIn(Tail(nodes))

\* identifiers.indexOf(name) > -1
indexOf(list, name) == \E n \in 1..Len(list) : list[n] = name

\* /\/node_modules\/(mahalo|core-js)\//.test(fileName)
isFrameworkFile(name) ==
    \/ Contains(name, <<"/", "n", "o", "d", "e", "_", "m", "o", "d", "u", "l", "e", "s",
                        "/", "m", "a", "h", "a", "l", "o", "/">>)
    \/ Contains(name, <<"/", "n", "o", "d", "e", "_", "m", "o", "d", "u", "l", "e", "s",
                        "/", "c", "o", "r", "e", "-", "j", "s", "/">>)

importStatement(name) ==
    Lit(<<"i", "m", "p", "o", "r", "t", " ", "{", "a", "s", "s", "i", "g", "n", " ",
          "a", "s", " ">> \o name
        \o <<"}", " ", "f", "r", "o", "m", " ", "'", "m", "a", "h", "a", "l", "o", "'",
             ";", "\n">>)

\* A run that writes the import statement whether or not a hook call was made.
prependImportAlways(sn, should, name) == prependText(sn, importStatement(name))

\* Line 60: shouldImportAssign && sourceNode.prepend(...)
prependImport(sn, should, name) ==
    IF should THEN prependText(sn, importStatement(name)) ELSE sn

NoFragment == SourceNode(0, 0, <<>>)

NoReturn == [fileName |-> <<>>, map |-> NoMap]

NoLineage == [asked |-> FALSE, from |-> <<>>, answer |-> ""]

NoError == <<>>

\* A diagnostic of the front end: its category and its message, a chain of
\* one text or more.
Diagnostic(category, messageText) == [category |-> category, messageText |-> messageText]

RECURSIVE flattenChain(_, _)
\* ts.flattenDiagnosticMessageText(messageText, '\n'): the texts of the
\* chain, each but the first on a line of its own and two blanks deeper.
flattenChain(messageText, indent) ==
    IF messageText = <<>> THEN <<>>
    ELSE (IF indent = 0 THEN <<>> ELSE <<"\n">> \o Blanks(2 * indent))
         \o Head(messageText) \o flattenChain(Tail(messageText), indent + 1)

flattenDiagnosticMessageText(messageText) == flattenChain(messageText, 0)

\* A gate that takes a warning for an error.
throwsOnWarningToo(diagnostic) == diagnostic.category \in {"Error", "Warning"}

\* Line 45: the diagnostics the callback throws on.
throws(diagnostic) == diagnostic.category = "Error"

\* What ts.getPreEmitDiagnostics can report of a unit.
DiagnosticLists ==
    LET warning == Diagnostic("Warning", << <<"w">> >>)
        message == Diagnostic("Message", << <<"m">> >>)
        first   == Diagnostic("Error", << <<"e">> >>)
        second  == Diagnostic("Error", << <<"f">>, <<"g">> >>)
    IN  { <<>>, << warning >>, << message, warning >>, << first >>, << warning, first >>,
          << first, second >>, << second, first >>, << message, second, warning >> }

\* No call yet, an empty cache, and a disk that holds one file, with any
\* of the modules in it: the calls of one file that does not change.
Init ==
    /\ pc = "idle"
    /\ fileName = <<>>
    /\ sourceFile = NoNode
    /\ sourceText = <<>>
    /\ originalText = <<>>
    /\ identifiers = <<>>
    /\ assignIdentifier = <<>>
    /\ shouldImportAssign = FALSE
    /\ rootNode = NoFragment
    /\ sourceMap = NoMap
    /\ result = NoMap
    /\ returned = NoReturn
    /\ calls = <<>>
    /\ shouldDiagnose = FALSE
    /\ diagnostics = <<>>
    /\ error = NoError
    /\ classes = <<>>
    /\ lineage = NoLineage
    /\ cachedPrograms = <<>>
    /\ disk \in { m.fileName :> m : m \in Modules }
    /\ cacheCall = NoCall
    /\ reference = <<>>

\* Lines 31-35: the program of the call, and its file for the unit.
Program(name, got) ==
    /\ fileName' = name
    /\ cachedPrograms' = got.cachedPrograms
    /\ cacheCall' = CacheCall("getProgram", name, got)
    /\ sourceFile' = Lay(got.program[name].unit, 0)
    /\ originalText' = TextOf(got.program[name].unit)
    /\ sourceText' = Tagged(TextOf(got.program[name].unit))
    /\ classes' = got.program[name].classes

\* Lines 28-41: a call mahaloTranspiler(moduleName, shouldDiagnose), of a
\* module that resolveModuleName finds on disk.
Begin ==
    /\ pc = "idle"
    /\ \E name \in DOMAIN disk : Program(name, getProgram(cachedPrograms, name))
    /\ shouldDiagnose' \in BOOLEAN
    /\ pc' = "diagnose"
    /\ identifiers' = <<>>
    /\ assignIdentifier' = assign
    /\ shouldImportAssign' = FALSE
    /\ rootNode' = NoFragment
    /\ sourceMap' = NoMap
    /\ result' = NoMap
    /\ returned' = NoReturn
    /\ calls' = <<>>
    /\ diagnostics' = <<>>
    /\ error' = NoError
    /\ UNCHANGED <<lineage, disk, reference>>

\* Line 51: where the run goes on after the diagnostics.
afterDiagnostics == IF isFrameworkFile(fileName) THEN "transpile" ELSE "scan"

\* Line 43: shouldDiagnose && ts.getPreEmitDiagnostics(program, sourceFile)
GetPreEmitDiagnostics ==
    /\ pc = "diagnose"
    /\ \/ /\ shouldDiagnose
          /\ diagnostics' \in DiagnosticLists
          /\ pc' = "report"
       \/ /\ ~shouldDiagnose
          /\ diagnostics' = diagnostics
          /\ pc' = afterDiagnostics
    /\ UNCHANGED <<fileName, sourceFile, sourceText, originalText, identifiers,
                   assignIdentifier, shouldImportAssign, rootNode, sourceMap, result,
                   returned, calls, shouldDiagnose, error>>
    /\ UNCHANGED lineageVars
    /\ UNCHANGED cacheVars

\* Lines 43-49: the forEach over the diagnostics; the callback throws on
\* the first it takes for an error.
ReportDiagnostics ==
    /\ pc = "report"
    /\ LET thrown == SelectSeq(diagnostics, throws)
       IN  \/ /\ thrown # <<>>
              /\ error' = flattenDiagnosticMessageText(thrown[1].messageText)
              /\ diagnostics' = diagnostics
              /\ pc' = "failed"
           \/ /\ thrown = <<>>
              /\ error' = error
              /\ diagnostics' = <<>>
              /\ pc' = afterDiagnostics
    /\ UNCHANGED <<fileName, sourceFile, sourceText, originalText, identifiers,
                   assignIdentifier, shouldImportAssign, rootNode, sourceMap, result,
                   returned, calls, shouldDiagnose>>
    /\ UNCHANGED lineageVars
    /\ UNCHANGED cacheVars

\* Line 52.
FindIdentifiers ==
    /\ pc = "scan"
    /\ identifiers' = findIdentifiers(sourceFile)
    /\ pc' = "allocate"
    /\ UNCHANGED <<fileName, sourceFile, sourceText, originalText, assignIdentifier,
                   shouldImportAssign, rootNode, sourceMap, result, returned, calls,
                   shouldDiagnose, diagnostics, error>>
    /\ UNCHANGED lineageVars
    /\ UNCHANGED cacheVars

\* Lines 54-56: one test of the loop condition, and the body when it holds.
Allocate ==
    /\ pc = "allocate"
    /\ \/ /\ indexOf(identifiers, assignIdentifier)
          /\ assignIdentifier' = <<"_">> \o assignIdentifier
          /\ pc' = "allocate"
       \/ /\ ~indexOf(identifiers, assignIdentifier)
          /\ assignIdentifier' = assignIdentifier
          /\ pc' = "walk"
    /\ UNCHANGED <<fileName, sourceFile, sourceText, originalText, identifiers,
                   shouldImportAssign, rootNode, sourceMap, result, returned, calls,
                   shouldDiagnose, diagnostics, error>>
    /\ UNCHANGED lineageVars
    /\ UNCHANGED cacheVars

\* Line 58: the tree walk.
Walk ==
    /\ pc = "walk"
    /\ LET walked == createSourceNode(sourceFile)
       IN  /\ rootNode' = walked.sn
           /\ shouldImportAssign' = walked.import
           /\ calls' = walked.log
    /\ pc' = "flatten"
    /\ UNCHANGED <<fileName, sourceFile, sourceText, originalText, identifiers,
                   assignIdentifier, sourceMap, result, returned,
                   shouldDiagnose, diagnostics, error>>
    /\ UNCHANGED lineageVars
    /\ UNCHANGED cacheVars

\* Lines 60-66: the import statement, the rewritten text and its map.
Generate ==
    /\ pc = "flatten"
    /\ LET withImport == prependImport(rootNode, shouldImportAssign, assignIdentifier)
           stringWithSourceMap == toStringWithSourceMap(withImport)
       IN  /\ rootNode' = withImport
           /\ sourceText' = stringWithSourceMap.code
           /\ sourceMap' = stringWithSourceMap.map
    /\ pc' = "transpile"
    /\ UNCHANGED <<fileName, sourceFile, originalText, identifiers, assignIdentifier,
                   shouldImportAssign, result, returned, calls,
                   shouldDiagnose, diagnostics, error>>
    /\ UNCHANGED lineageVars
    /\ UNCHANGED cacheVars

\* The positions [line, column] of the characters of a text.
PositionOf(text, offset) ==
    LET at == getLineAndCharacterOfPosition(Chars(text), offset)
    IN  [line |-> at.line + 1, column |-> at.character]

\* Lines 69-78.  ts.transpileModule is the lowering pass, not part of the
\* repository: the map the model gives it traces every position of its
\* output to the same position of the text it was given.
Transpile ==
    /\ pc = "transpile"
    /\ LET places == { PositionOf(sourceText, offset) :
                           offset \in 0..(Len(sourceText) - 1) }
           typescriptMap ==
               [defined |-> TRUE, sources |-> {fileName},
                mappings |-> { Mapping(at.line, at.column, at.line, at.column, fileName) :
                                   at \in places }]
       IN  /\ result' = typescriptMap
           /\ returned' = [fileName |-> fileName,
                           map |-> mergeSourceMaps(sourceMap, typescriptMap)]
    /\ pc' = "done"
    /\ UNCHANGED <<fileName, sourceFile, sourceText, originalText, identifiers,
                   assignIdentifier, shouldImportAssign, rootNode, sourceMap, calls,
                   shouldDiagnose, diagnostics, error>>
    /\ UNCHANGED lineageVars
    /\ UNCHANGED cacheVars

\* The caller takes the result, or catches the error of line 46; the next
\* call starts from scratch but for the cache of programs.
Finish ==
    /\ pc \in {"done", "failed"}
    /\ pc' = "idle"
    /\ fileName' = <<>>
    /\ sourceFile' = NoNode
    /\ sourceText' = <<>>
    /\ originalText' = <<>>
    /\ identifiers' = <<>>
    /\ assignIdentifier' = <<>>
    /\ shouldImportAssign' = FALSE
    /\ rootNode' = NoFragment
    /\ sourceMap' = NoMap
    /\ result' = NoMap
    /\ returned' = NoReturn
    /\ calls' = <<>>
    /\ shouldDiagnose' = FALSE
    /\ diagnostics' = <<>>
    /\ error' = NoError
    /\ classes' = <<>>
    /\ UNCHANGED <<lineage, cachedPrograms, disk, cacheCall>>

\* The caller takes the result and keeps nothing of it.
Return == Finish /\ UNCHANGED reference

Next ==
    \/ Begin
    \/ GetPreEmitDiagnostics
    \/ ReportDiagnostics
    \/ FindIdentifiers
    \/ Allocate
    \/ Walk
    \/ Generate
    \/ Transpile
    \/ Return

Spec == Init /\ [][Next]_vars


(***************************************************************************)
(* getProgram and clearCachedPrograms on their own: the callers ask for    *)
(* the programs of the files of one disk in every order.                   *)
(***************************************************************************)
\* The name of a file of the user.
SourceFileName(word) == <<"/", "s", "r", "c", "/">> \o word \o <<".", "t", "s">>

\* A file whose unit is the statement `a.b=1;`.
PlainFile(name) ==
    [fileName |-> name, classes |-> <<>>,
     unit |-> SourceFileTerm(NoLocals, << MemberAssignmentStatement >>, <<>>)]

\* A file whose unit is a class without members.
ClassFile(name, chain) ==
    [fileName |-> name, classes |-> chain, unit |-> ClassUnit(chain, <<>>)]

\* The files f1.ts, f2.ts, ... that stand alone.
PlainFileNames ==
    { SourceFileName(<<"f", <<"1", "2", "3", "4", "5", "6", "7", "8">>[n]>>) :
          n \in 1..MaxFiles }

\* app.ts declares a class that extends the class b.ts declares, so that
\* the program of app.ts has both files; the other files stand alone.
CacheDisk ==
    (UserFile :> ClassFile(UserFile,
                           << Class(default, UserFile, "ClassDeclaration",
                                    <<"ExtendsKeyword">>, 2),
                              Class(default, OtherFile, "ClassDeclaration", <<>>, 0) >>))
    @@ (OtherFile :> ClassFile(OtherFile,
                               << Class(default, OtherFile, "ClassDeclaration", <<>>, 0) >>))
    @@ [name \in PlainFileNames |-> PlainFile(name)]

\* The same name as a caller on Windows writes it.
WithBackslashes(name) == [n \in 1..Len(name) |-> IF name[n] = "/" THEN "\\" ELSE name[n]]

\* The names the callers ask getProgram for.
Requests == DOMAIN disk \cup { WithBackslashes(OtherFile) }

InitCache ==
    /\ pc = "idle"
    /\ fileName = <<>>
    /\ sourceFile = NoNode
    /\ sourceText = <<>>
    /\ originalText = <<>>
    /\ identifiers = <<>>
    /\ assignIdentifier = <<>>
    /\ shouldImportAssign = FALSE
    /\ rootNode = NoFragment
    /\ sourceMap = NoMap
    /\ result = NoMap
    /\ returned = NoReturn
    /\ calls = <<>>
    /\ shouldDiagnose = FALSE
    /\ diagnostics = <<>>
    /\ error = NoError
    /\ classes = <<>>
    /\ lineage = NoLineage
    /\ cachedPrograms = <<>>
    /\ disk = CacheDisk
    /\ cacheCall = NoCall
    /\ reference = <<>>

\* What a call of getProgram leaves.
Fetch(name, got) ==
    /\ cachedPrograms' = got.cachedPrograms
    /\ cacheCall' = CacheCall("getProgram", name, got)

\* Lines 476-498: a call getProgram(fileName) of a caller.
GetProgram ==
    /\ pc = "idle"
    /\ \E name \in Requests : Fetch(name, getProgram(cachedPrograms, name))
    /\ UNCHANGED <<runVars, lineageVars, disk, reference>>

\* Lines 470-472: a call clearCachedPrograms().
ClearCachedPrograms ==
    /\ pc = "idle"
    /\ cachedPrograms' = <<>>
    /\ cacheCall' = [NoCall EXCEPT !.call = "clearCachedPrograms"]
    /\ UNCHANGED <<runVars, lineageVars, disk, reference>>

NextCache ==
    \/ GetProgram
    \/ ClearCachedPrograms

SpecCache == InitCache /\ [][NextCache]_vars

\* A cached program has a source file of the name the caller asked for.
IsCached(cache, name) ==
    \E n \in 1..Len(cache) : replaceBackslashes(name) \in DOMAIN cache[n]

\* What a call that took the cache from one state to the next has done to
\* it: a clear has emptied it; a hit has left it as it was; a miss has
\* added the program it returned at the end, after taking out the oldest
\* program when the cache held five.
FifoStep ==
    CASE cacheCall'.call = "clearCachedPrograms" -> cachedPrograms' = <<>>
      [] cacheCall'.call = "getProgram" ->
             IF IsCached(cachedPrograms, cacheCall'.fileName)
             THEN cachedPrograms' = cachedPrograms
             ELSE IF Len(cachedPrograms) = 5
             THEN /\ cachedPrograms' = Append(Tail(cachedPrograms), cacheCall'.program)
                  /\ cacheCall'.removed = Head(cachedPrograms)
             ELSE cachedPrograms' = Append(cachedPrograms, cacheCall'.program)
      [] OTHER -> FALSE

\* C23: the cache never holds more than five programs, and every call of
\* getProgram or clearCachedPrograms changes it as a first-in first-out
\* cache of five: a miss on a full cache takes out the oldest program,
\* whether or not it was found since, a hit changes nothing, a clear
\* empties it.
C23_BoundedFifoCache ==
    /\ [](Len(cachedPrograms) <= 5)
    /\ [][FifoStep]_<<cachedPrograms, cacheCall>>

\* A miss on a full cache has taken out a program, which the cache no
\* longer holds, and the cache is full again.
C23_Witness ==
    /\ cacheCall.call = "getProgram"
    /\ cacheCall.removed # <<>>
    /\ Len(cachedPrograms) = 5
    /\ cachedPrograms[5] = cacheCall.program
    /\ \A n \in 1..5 : cachedPrograms[n] # cacheCall.removed


(***************************************************************************)
(* mahaloTranspiler called again and again while the files of the disk are *)
(* written and the cache is cleared between the calls.                     *)
(***************************************************************************)
\* A file without a class.
FileWith(name, statements, locals) ==
    [fileName |-> name, classes |-> <<>>,
     unit |-> SourceFileTerm(locals, statements, <<>>)]

\* What the files can hold: app.ts the statement `a.b=1;` or the statement
\* `a.b;`, b.ts the statement `a.b=1;` with or without a declaration of
\* `assign` in front of it.
Versions(name) ==
    IF name = UserFile
    THEN { FileWith(name, << MemberAssignmentStatement >>, NoLocals),
           FileWith(name, << MemberReadStatement >>, NoLocals) }
    ELSE { FileWith(name, << MemberAssignmentStatement >>, NoLocals),
           FileWith(name, VarStatements(<<>>, <<"v", "a", "r">>, Chain(1))
                              \o << MemberAssignmentStatement >>, Chain(1)) }

InitRepeated ==
    /\ pc = "idle"
    /\ fileName = <<>>
    /\ sourceFile = NoNode
    /\ sourceText = <<>>
    /\ originalText = <<>>
    /\ identifiers = <<>>
    /\ assignIdentifier = <<>>
    /\ shouldImportAssign = FALSE
    /\ rootNode = NoFragment
    /\ sourceMap = NoMap
    /\ result = NoMap
    /\ returned = NoReturn
    /\ calls = <<>>
    /\ shouldDiagnose = FALSE
    /\ diagnostics = <<>>
    /\ error = NoError
    /\ classes = <<>>
    /\ lineage = NoLineage
    /\ cachedPrograms = <<>>
    /\ disk \in { (UserFile :> user) @@ (OtherFile :> other) :
                      user \in Versions(UserFile), other \in Versions(OtherFile) }
    /\ cacheCall = NoCall
    /\ reference = <<>>

\* A file of the disk is written between two calls.
WriteFile ==
    /\ pc = "idle"
    /\ \E name \in DOMAIN disk : \E version \in Versions(name) :
           disk' = [disk EXCEPT ![name] = version]
    /\ UNCHANGED <<runVars, lineageVars, cachedPrograms, cacheCall, reference>>

\* What the run returns (lines 74-78): the text and the merged map.
Output == [text |-> Chars(sourceText), map |-> returned.map]

\* What the caller keeps of the runs: for every program that was what
\* ts.createProgram makes of the disk at the time of the run, which is what
\* a run on an empty cache works on, what the run returned.
kept(program, output) ==
    IF pc = "done" /\ program = createProgram(fileName)
    THEN (program :> output) @@ reference
    ELSE reference

\* The caller takes the result and keeps it.
Keep == Finish /\ reference' = kept(cacheCall.program, Output)

NextRepeated ==
    \/ Begin
    \/ GetPreEmitDiagnostics
    \/ ReportDiagnostics
    \/ FindIdentifiers
    \/ Allocate
    \/ Walk
    \/ Generate
    \/ Transpile
    \/ Keep
    \/ ClearCachedPrograms
    \/ WriteFile

SpecRepeated == InitRepeated /\ [][NextRepeated]_vars

\* C21: what a run returns is what a run on an empty cache returns for the
\* same file while the disk is as it is: the output kept for the program
\* ts.createProgram makes of the disk now.
C21_CacheTransparency ==
    (pc = "done" /\ createProgram(fileName) \in DOMAIN reference)
        => Output = reference[createProgram(fileName)]

\* The same of the runs on a program that is what the disk holds.
TransparentWhenFresh ==
    (pc = "done" /\ createProgram(fileName) \in DOMAIN reference
     /\ cacheCall.program = createProgram(fileName))
        => Output = reference[createProgram(fileName)]


(***************************************************************************)
(* extendsClass on its own: the chains of classes it is asked about.       *)
(***************************************************************************)
\* The heritage clauses a class can have: none, extends, extends with
\* implements on either side of it, implements alone.
HeritageClauses ==
    { <<>>, <<"ExtendsKeyword">>, <<"ExtendsKeyword", "ImplementsKeyword">>,
      <<"ImplementsKeyword", "ExtendsKeyword">>, <<"ImplementsKeyword">> }

\* Files a base class can be declared in: the framework modules, a copy of
\* one below another directory, a file whose name differs from it in the
\* place of the dot, the user's own module of the same name.
BaseFiles ==
    { SentinelPath(coreComponent), SentinelPath(coreBehavior),
      <<"/", "x">> \o SentinelPath(coreComponent),
      <<"/", "n", "o", "d", "e", "_", "m", "o", "d", "u", "l", "e", "s", "/",
        "m", "a", "h", "a", "l", "o", "/", "c", "o", "r", "e", "/",
        "c", "o", "m", "p", "o", "n", "e", "n", "t", "x", "t", "s">>,
      <<"/", "s", "r", "c", "/", "c", "o", "m", "p", "o", "n", "e", "n", "t", ".", "t", "s">> }

\* The class of the unit, then n classes each the base of the one before
\* it, then the topmost class, the base of the last of them.
Chains(n) ==
    { [j \in 1..(n + 2) |->
          IF j = 1
          THEN Class(default, UserFile, "ClassDeclaration", first.clauses,
                     IF first.resolved THEN 2 ELSE 0)
          ELSE IF j = n + 2
          THEN Class(top.name, top.file, top.kind, <<>>, 0)
          ELSE Class(middle[j].name, <<"/", "s", "r", "c", "/", "b", ".", "t", "s">>,
                     middle[j].kind, middle[j].clauses, j + 1)] :
          first \in [clauses : HeritageClauses, resolved : BOOLEAN],
          middle \in [2..(n + 1) -> [name : {default, <<"B">>},
                                     kind : {"ClassDeclaration", "ClassExpression"},
                                     clauses : {<<>>, <<"ExtendsKeyword">>}]],
          top \in [name : {default, <<"B">>}, file : BaseFiles,
                   kind : {"ClassDeclaration", ""}] }

InitLineage ==
    /\ pc = "idle"
    /\ fileName = <<>>
    /\ sourceFile = NoNode
    /\ sourceText = <<>>
    /\ originalText = <<>>
    /\ identifiers = <<>>
    /\ assignIdentifier = <<>>
    /\ shouldImportAssign = FALSE
    /\ rootNode = NoFragment
    /\ sourceMap = NoMap
    /\ result = NoMap
    /\ returned = NoReturn
    /\ calls = <<>>
    /\ shouldDiagnose = FALSE
    /\ diagnostics = <<>>
    /\ error = NoError
    /\ classes = <<>>
    /\ lineage = NoLineage
    /\ cachedPrograms = <<>>
    /\ disk = <<>>
    /\ cacheCall = NoCall
    /\ reference = <<>>

\* ts.createProgram and the checker hand the run the classes of a unit.
CreateProgram ==
    /\ classes = <<>>
    /\ \E n \in 0..MaxDepth : \E chain \in Chains(n) : classes' = chain
    /\ lineage' = NoLineage
    /\ UNCHANGED runVars
    /\ UNCHANGED cacheVars

\* findEdits, lines 145-156: a call extendsClass(node, 'default', from) on
\* the class of the unit.
ExtendsClass ==
    /\ classes # <<>>
    /\ ~lineage.asked
    /\ \E from \in {coreComponent, coreBehavior} :
           lineage' = [asked |-> TRUE, from |-> from,
                       answer |-> extendsClass(1, default, from)]
    /\ UNCHANGED <<classes, runVars>>
    /\ UNCHANGED cacheVars

\* The run ends; its program is dropped (clearCachedPrograms).
DropProgram ==
    /\ lineage.asked
    /\ classes' = <<>>
    /\ lineage' = NoLineage
    /\ UNCHANGED runVars
    /\ UNCHANGED cacheVars

NextLineage ==
    \/ CreateProgram
    \/ ExtendsClass
    \/ DropProgram

SpecLineage == InitLineage /\ [][NextLineage]_vars

\* The classes above a class: its base, the base of its base, ...
RECURSIVE Ancestors(_)
Ancestors(node) ==
    LET clauses == classes[node].heritageClauses
    IN  IF "ExtendsKeyword" \in { clauses[j] : j \in 1..Len(clauses) }
           /\ classes[node].base # 0
        THEN {classes[node].base} \cup Ancestors(classes[node].base)
        ELSE {}

\* A class is the base class of the framework module `from`.
IsSentinel(node, from) ==
    /\ classes[node].name = default
    /\ classes[node].kind = "ClassDeclaration"
    /\ classes[node].fileName = SentinelPath(from)

\* C6: when the class of the unit reaches the framework's base class
\* through a chain of class declarations, however each of them is named,
\* extendsClass answers true.
C6_LineageTransitive ==
    (lineage.asked
     /\ \E top \in Ancestors(1) :
            /\ IsSentinel(top, lineage.from)
            /\ \A j \in Ancestors(1) : classes[j].kind = "ClassDeclaration")
        => lineage.answer = "true"

\* C7: extendsClass answers true only when a class above the class of the
\* unit has the sentinel name and is declared in exactly the file of the
\* framework module.
C7_ExactModuleMatch ==
    (lineage.asked /\ lineage.answer = "true")
        => \E top \in Ancestors(1) :
               /\ classes[top].name = default
               /\ classes[top].fileName = SentinelPath(lineage.from)

\* The extends clause of a class, when it has one.
HasExtendsClause(node) ==
    \E j \in 1..Len(classes[node].heritageClauses) :
        classes[node].heritageClauses[j] = "ExtendsKeyword"

\* The cases in which the lineage of a class cannot be followed: the class
\* has no heritage clause, none of its heritage clauses is an extends
\* clause, or the expression of its extends clause resolves to no symbol.
LineageFails(node) ==
    \/ classes[node].heritageClauses = <<>>
    \/ ~HasExtendsClause(node)
    \/ classes[node].base = 0

\* C22: in each of the cases in which the lineage of the class cannot be
\* followed, extendsClass raises no error and its answer is not true (the
\* value the caller's condition takes for false).
C22_LineageFailureCases ==
    (lineage.asked /\ LineageFails(1)) => lineage.answer = "undefined"

\* The two cases without an extends clause taken alone.
LineageFailsWithoutExtends ==
    (lineage.asked /\ ~HasExtendsClause(1)) => lineage.answer = "undefined"


(***************************************************************************)
(* Properties of the tree walk.  They are stated on the fragment tree the  *)
(* walk has built (pc = "flatten": line 58 done, line 60 not yet).         *)
(***************************************************************************)
RECURSIVE Subtrees(_)
\* A node and all the nodes below it.
Subtrees(node) ==
    {node} \cup UNION { Subtrees(node.children[n]) : n \in 1..Len(node.children) }

isAssignmentNode(node) ==
    /\ node.kind = "BinaryExpression"
    /\ node.children[2].kind \in AssignmentTokens

isUpdateNode(node) ==
    /\ node.kind \in {"PrefixUnaryExpression", "PostfixUnaryExpression"}
    /\ node.operator \in {"PlusPlusToken", "MinusMinusToken"}

isDeleteNode(node) ==
    /\ node.kind = "DeleteExpression"
    /\ isMemberKind(node.children[1])

\* A class declaration the dispatcher makes tables for.
isTableNode(node) ==
    /\ node.kind = "ClassDeclaration"
    /\ isInjectable(node) \/ isComponent(node)

\* A string literal the dispatcher makes a deferred load of.
isViewNode(node) == node.kind = "StringLiteral" /\ isRouteView(node)

\* Some rewrite rule applies to a node of the unit.
SomeRuleFires ==
    \E node \in Subtrees(sourceFile) :
        \/ isAssignmentNode(node) \/ isUpdateNode(node) \/ isDeleteNode(node)
        \/ isTableNode(node) \/ isViewNode(node)

\* The child fragments of a fragment, without its chunks of text.
NodeChildren(sn) == SelectSeq(sn.children, LAMBDA item : item.isNode)

\* The expression statements of the unit, by their place in the file, the
\* expression of each and the fragment the walk built for it.
Statements ==
    { k \in 1..Len(sourceFile.children) :
          sourceFile.children[k].kind = "ExpressionStatement" }

ExpressionAt(k) == sourceFile.children[k].children[1]

FragmentAt(k) == NodeChildren(NodeChildren(rootNode)[k])[1]

TextAt(k) == Chars(Flatten(FragmentAt(k)))

Unblank(text) == SelectSeq(text, LAMBDA ch : ch \notin WhiteSpace)

\* The number of places of a text where a literal stands.
Occurrences(text, literal) ==
    Cardinality({ k \in 0..(Len(text) - Len(literal)) :
                      SubSeq(text, k + 1, k + Len(literal)) = literal })

\* The last argument of the text of a call with three arguments of which
\* the first two hold no comma: what stands between the second comma and
\* the closing parenthesis that ends the text.
ThirdArgument(text) ==
    LET commas == { n \in 1..Len(text) : text[n] = "," }
        second == CHOOSE n \in commas :
                      Cardinality({ q \in commas : q < n }) = 1
    IN  IF Cardinality(commas) < 2 THEN <<>>
        ELSE SubSeq(text, second + 1, Len(text) - 1)

\* An assignment with a member access on its left.
isMemberAssignment(node) ==
    isAssignmentNode(node) /\ isMemberKind(node.children[1])

\* C1: when no rewrite rule fires on any node of the unit, the text of the
\* fragment tree read in document order (the gap before each child, the
\* child's fragment, the tail) is exactly the text of the unit, every
\* character of it once and in its place.
C1_FlatteningIsIdentity ==
    (pc = "flatten" /\ ~SomeRuleFires) => Flatten(rootNode) = Tagged(originalText)

\* C1 witness: a walked unit of several nodes with blanks between them and
\* no rule firing.
C1_Witness ==
    /\ pc = "flatten"
    /\ ~SomeRuleFires
    /\ Cardinality(Subtrees(sourceFile)) >= 6
    /\ \E n \in 1..Len(originalText) : originalText[n] = " "
    /\ Flatten(rootNode) = Tagged(originalText)

\* Every name some node of the unit declares.
DeclaredNames ==
    UNION { { node.locals[n] : n \in 1..Len(node.locals) } :
                node \in Subtrees(sourceFile) }

\* C2: the hook name the allocation loop ends with is none of the names
\* declared anywhere in the unit, nested scopes included.
C2_HookNameIsFresh ==
    pc = "walk" => assignIdentifier \notin DeclaredNames

\* C3: for a compound assignment to a member access, the third argument of
\* the hook call is the text of the left side, the operator without its
\* final "=", and the text of the right side.
C3_OperatorReconstruction ==
    pc = "flatten" =>
        \A k \in Statements :
            LET node == ExpressionAt(k)
            IN  (isMemberAssignment(node) /\ node.children[2].kind # "FirstAssignment") =>
                    /\ TextAt(k)[Len(TextAt(k))] = ")"
                    /\ Unblank(ThirdArgument(TextAt(k)))
                         = Unblank(Chars(getText(node.children[1]))
                                   \o SubSeq(TokenText(node.children[2].kind), 1,
                                             Len(TokenText(node.children[2].kind)) - 1)
                                   \o Chars(getText(node.children[3])))

\* The assignments at or below a node.
AssignmentsIn(node) == { n \in Subtrees(node) : isAssignmentNode(n) }

\* C4: the value argument of the hook call of a member assignment holds a
\* hook call of its own for every assignment of the right-hand side, the
\* right-hand side itself included.
C4_NestedAssignmentsRewritten ==
    pc = "flatten" =>
        \A k \in Statements :
            LET node == ExpressionAt(k)
            IN  (isMemberAssignment(node) /\ node.children[2].kind = "FirstAssignment") =>
                    Occurrences(ThirdArgument(TextAt(k)), assignIdentifier \o <<"(">>)
                        >= Cardinality(AssignmentsIn(node.children[3]))

(***************************************************************************)
(* The value of a rewritten expression.  The emitted text is read as       *)
(* JavaScript: words, numbers, quoted keys, member and index access,       *)
(* calls, parentheses, +, - and *.  There is one object, which `a` and `c` *)
(* both name; heap gives the integer each of its properties holds; the     *)
(* hook stores its third argument at the property its second argument      *)
(* names and returns it.                                                   *)
(***************************************************************************)
Letters == LowerCase \cup UpperCase \cup {"_"}

DigitValue(ch) == CHOOSE n \in 0..9 : <<"0", "1", "2", "3", "4", "5", "6", "7", "8", "9">>[n + 1] = ch

\* The j-th smallest member of a set of numbers.
Nth(S, j) == CHOOSE n \in S : Cardinality({ q \in S : q < n }) = j - 1

\* The tokens of a text, in order: [kind, text] with kind "word", "number",
\* "string" (text without the quotes) or "punct".
Tokens(text) ==
    LET quotes(n)  == Cardinality({ q \in 1..n : text[q] = "\"" })
        inside(n)  == text[n] # "\"" /\ quotes(n) % 2 = 1
        isWord(n)  == n >= 1 /\ n <= Len(text) /\ ~inside(n)
                      /\ text[n] \in Letters \cup Digits
        starts     == { n \in 1..Len(text) :
                            /\ ~inside(n)
                            /\ text[n] \notin WhiteSpace
                            /\ text[n] = "\"" => quotes(n) % 2 = 1
                            /\ isWord(n) => ~isWord(n - 1) }
        wordEnd(n) == CHOOSE m \in n..Len(text) :
                          /\ \A q \in n..m : isWord(q)
                          /\ ~isWord(m + 1)
        close(n)   == CHOOSE m \in (n + 1)..Len(text) :
                          /\ text[m] = "\""
                          /\ \A q \in (n + 1)..(m - 1) : text[q] # "\""
        token(n)   == IF text[n] = "\""
                      THEN [kind |-> "string", text |-> SubSeq(text, n + 1, close(n) - 1)]
                      ELSE IF isWord(n)
                      THEN [kind |-> IF text[n] \in Digits THEN "number" ELSE "word",
                            text |-> SubSeq(text, n, wordEnd(n))]
                      ELSE [kind |-> "punct", text |-> <<text[n]>>]
    IN  [j \in 1..Cardinality(starts) |-> token(Nth(starts, j))]

\* The properties of `a` the units touch, and the integers they may hold.
Keys == {nB, nK, nD}

Ints == (0 - MaxInt)..MaxInt

Heaps == [Keys -> Ints]

\* Values: an integer (n), a key (s), the object `a`, the hook, or none.
Value(t, n, str) == [t |-> t, n |-> n, s |-> str]

IntValue(n) == Value("int", n, <<>>)

NoValue == Value("none", 0, <<>>)

\* What a free name of the emitted text stands for: the hook, the object,
\* the key the index variable holds, an integer.
Lookup(name, hook) ==
    IF name = hook THEN Value("fn", 0, <<>>)
    ELSE IF name \in {nA, nC} THEN Value("obj", 0, <<>>)
    ELSE IF name = nI THEN Value("str", 0, nK)
    ELSE IF name = nV THEN IntValue(1)
    ELSE NoValue

\* The machine: values and pending operators (a mark is [o, h] with h the
\* height of the values when it was pushed), the heap, what the last token
\* was ("operand", "operator" or "dot"), and whether all went well.
Machine(heap) ==
    [vals |-> <<>>, ops |-> <<>>, heap |-> heap, prev |-> "operator", ok |-> TRUE]

Push(m, val) ==
    [m EXCEPT !.vals = Append(@, val), !.prev = "operand", !.ok = @ /\ val.t # "none"]

Mark(m, o) ==
    [m EXCEPT !.ops = Append(@, [o |-> o, h |-> Len(m.vals)]), !.prev = "operator"]

Top(stack) == stack[Len(stack)]

Pop(stack, n) == SubSeq(stack, 1, Len(stack) - n)

\* What an operator makes of two integers.
Apply(o, left, right) ==
    CASE o = "+" -> left + right
      [] o = "-" -> left - right
      [] o = "*" -> left * right

\* Applies the pending operator, if it is one of `operators`.
ReduceOne(m, operators) ==
    IF m.ops # <<>> /\ Top(m.ops).o \in operators
    THEN IF Len(m.vals) >= 2 /\ Top(m.vals).t = "int" /\ m.vals[Len(m.vals) - 1].t = "int"
         THEN [m EXCEPT !.vals = Append(Pop(@, 2),
                                        IntValue(Apply(Top(m.ops).o,
                                                       m.vals[Len(m.vals) - 1].n,
                                                       Top(m.vals).n))),
                        !.ops = Pop(@, 1)]
         ELSE [m EXCEPT !.ok = FALSE]
    ELSE m

\* Applies the pending *, if there is one: * binds tighter than + and -.
ReduceProduct(m) == ReduceOne(m, {"*"})

\* Applies the pending *, then the pending + or -, if there are any.
Reduce(m) == ReduceOne(ReduceProduct(m), {"+", "-"})

\* object[key], read.
Member(m, key) ==
    IF m.vals # <<>> /\ Top(m.vals).t = "obj" /\ key \in Keys
    THEN [m EXCEPT !.vals = Append(Pop(@, 1), IntValue(m.heap[key])), !.prev = "operand"]
    ELSE [m EXCEPT !.ok = FALSE]

\* The closing parenthesis of a call of the hook or of a group.
Close(m) ==
    IF m.ops = <<>> THEN [m EXCEPT !.ok = FALSE]
    ELSE LET mark == Top(m.ops)
             args == SubSeq(m.vals, mark.h + 1, Len(m.vals))
         IN  IF mark.o = "group" /\ Len(args) = 1
             THEN [m EXCEPT !.ops = Pop(@, 1), !.prev = "operand"]
             ELSE IF /\ mark.o = "call" /\ mark.h >= 1 /\ m.vals[mark.h].t = "fn"
                     /\ Len(args) = 3 /\ args[1].t = "obj" /\ args[2].t = "str"
                     /\ args[2].s \in Keys /\ args[3].t = "int"
             THEN [m EXCEPT !.vals = Append(SubSeq(@, 1, mark.h - 1), args[3]),
                            !.ops = Pop(@, 1),
                            !.heap = [@ EXCEPT ![args[2].s] = args[3].n],
                            !.prev = "operand"]
             ELSE [m EXCEPT !.ok = FALSE]

\* The closing bracket of an index access.
CloseIndex(m) ==
    IF m.ops # <<>> /\ Top(m.ops).o = "index" /\ Len(m.vals) = Top(m.ops).h + 1
       /\ Top(m.vals).t = "str"
    THEN Member([m EXCEPT !.vals = Pop(@, 1), !.ops = Pop(@, 1)], Top(m.vals).s)
    ELSE [m EXCEPT !.ok = FALSE]

Step(m, token, hook) ==
    CASE token.kind = "number" -> Push(m, IntValue(DigitValue(token.text[1])))
      [] token.kind = "string" -> Push(m, Value("str", 0, token.text))
      [] token.kind = "word" ->
             IF m.prev = "dot" THEN Member(m, token.text)
             ELSE Push(m, Lookup(token.text, hook))
      [] token.text = <<".">> -> [m EXCEPT !.prev = "dot"]
      [] token.text = <<"(">> ->
             Mark(m, IF m.prev = "operand" THEN "call" ELSE "group")
      [] token.text = <<"[">> -> Mark(m, "index")
      [] token.text \in {<<"+">>, <<"-">>} -> Mark(Reduce(m), token.text[1])
      [] token.text = <<"*">> -> Mark(ReduceProduct(m), "*")
      [] token.text = <<",">> -> [Reduce(m) EXCEPT !.prev = "operator"]
      [] token.text = <<")">> -> Close(Reduce(m))
      [] token.text = <<"]">> -> CloseIndex(Reduce(m))
      [] OTHER -> [m EXCEPT !.ok = FALSE]

RECURSIVE Run(_, _, _, _)
Run(m, tokens, j, hook) ==
    IF j > Len(tokens) \/ ~m.ok THEN m
    ELSE Run(Step(m, tokens[j], hook), tokens, j + 1, hook)

\* The value of an expression text and the heap it leaves.
Evaluate(text, heap, hook) ==
    LET m == Reduce(Run(Machine(heap), Tokens(text), 1, hook))
    IN  [ok    |-> m.ok /\ Len(m.vals) = 1 /\ m.ops = <<>> /\ Top(m.vals).t = "int",
         value |-> IF m.vals # <<>> THEN Top(m.vals).n ELSE 0,
         heap  |-> m.heap]

\* The property of `a` a member access names.
KeyOf(member) ==
    IF member.kind = "PropertyAccessExpression" THEN Chars(getText(member.children[2]))
    ELSE IF member.children[2].kind = "StringLiteral"
    THEN LET quoted == Chars(getText(member.children[2]))
         IN  SubSeq(quoted, 2, Len(quoted) - 1)
    ELSE Lookup(Chars(getText(member.children[2])), assignIdentifier).s

\* The text hook(object, key, the claim gives the call that replaces a
\* member assignment: the key quoted for a dot access, verbatim for a
\* bracket access.
ExpectedCallHead(node) ==
    LET left == node.children[1]
        key  == Chars(getText(left.children[2]))
    IN  assignIdentifier \o <<"(">> \o Chars(getText(left.children[1])) \o <<",", " ">>
        \o (IF left.kind = "PropertyAccessExpression"
            THEN <<"\"">> \o key \o <<"\"">> ELSE key)
        \o <<",", " ">>

\* A plain "=" assignment to a member access.
isPlainMemberAssignment(node) ==
    isMemberAssignment(node) /\ node.children[2].kind = "FirstAssignment"

\* The text of a statement's expression stores the value of the right-hand
\* side at the member the left side names and yields that value.
StoresAndYields(k) ==
    \A heap \in Heaps :
        LET node  == ExpressionAt(k)
            key   == KeyOf(node.children[1])
            value == Evaluate(Chars(getText(node.children[3])), heap, assignIdentifier)
            run   == Evaluate(TextAt(k), heap, assignIdentifier)
        IN  /\ value.ok /\ run.ok
            /\ run.value = value.value
            /\ run.heap = [heap EXCEPT ![key] = value.value]

\* C5: every plain "=" assignment to a member access, wherever it stands in
\* a statement, is replaced by hook(object, key, value) with the key quoted
\* for a dot access and verbatim for a bracket access; and the call leaves
\* stored and yields what the assignment did (checked for a right-hand side
\* that is itself free of assignments, updates and deletes).
C5_EveryMemberAssignmentReplaced ==
    pc = "flatten" =>
        \A k \in Statements :
            /\ \A node \in AssignmentsIn(ExpressionAt(k)) :
                   isPlainMemberAssignment(node) =>
                       Contains(TextAt(k), ExpectedCallHead(node))
            /\ (/\ isPlainMemberAssignment(ExpressionAt(k))
                /\ \A node \in Subtrees(ExpressionAt(k).children[3]) :
                       /\ ~isAssignmentNode(node) /\ ~isUpdateNode(node)
                       /\ node.kind # "DeleteExpression")
                   => StoresAndYields(k)

\* The updates of a member of `a` among the statements of the unit.
MemberUpdates ==
    { k \in Statements : /\ isUpdateNode(ExpressionAt(k))
                         /\ isMemberKind(ExpressionAt(k).children[1]) }

\* C10: with the operand holding n, the text that replaces a postfix ++
\* (--) evaluates to n and leaves n + 1 (n - 1) stored; the text that
\* replaces a prefix ++ (--) evaluates to the new value it leaves stored.
\* No other property of the object changes.
C10_UpdateValuePreserved ==
    pc = "flatten" =>
        \A k \in MemberUpdates :
            \A heap \in Heaps :
                LET node  == ExpressionAt(k)
                    key   == KeyOf(node.children[1])
                    delta == IF node.operator = "PlusPlusToken" THEN 1 ELSE 0 - 1
                    run   == Evaluate(TextAt(k), heap, assignIdentifier)
                IN  /\ run.ok
                    /\ run.heap = [heap EXCEPT ![key] = heap[key] + delta]
                    /\ run.value = IF node.kind = "PostfixUnaryExpression"
                                   THEN heap[key] ELSE heap[key] + delta

\* C10 witness: a postfix update of a member has been rewritten and its
\* text stores the new value and yields the old one.
C10_Witness ==
    /\ pc = "flatten"
    /\ \E k \in MemberUpdates :
           /\ ExpressionAt(k).kind = "PostfixUnaryExpression"
           /\ ExpressionAt(k).operator = "MinusMinusToken"
           /\ \E heap \in Heaps :
                  LET run == Evaluate(TextAt(k), heap, assignIdentifier)
                  IN  /\ heap[nB] = MaxInt
                      /\ run.ok
                      /\ run.value = MaxInt
                      /\ run.heap[nB] = MaxInt - 1


\* The deletes of a member at or below a node.
DeletesIn(node) == { n \in Subtrees(node) : isDeleteNode(n) }

\* The call hook(object, key) the claim gives a delete of a member: the key
\* quoted for a dot access, verbatim for a bracket access.
ExpectedDeleteCall(node) ==
    LET target == node.children[1]
        key    == Chars(getText(target.children[2]))
    IN  assignIdentifier \o <<"(">> \o Chars(getText(target.children[1])) \o <<",", " ">>
        \o (IF target.kind = "PropertyAccessExpression"
            THEN <<"\"">> \o key \o <<"\"">> ELSE key)
        \o <<")">>

\* C11: every delete of a dot or bracket member access, wherever it stands
\* in a statement, is replaced by the two-argument call hook(object, key),
\* the key quoted for a dot access and verbatim for a bracket access; no
\* delete of a member is left in the text.
C11_DeleteTwoArgumentForm ==
    pc = "flatten" =>
        \A k \in Statements :
            \A node \in DeletesIn(ExpressionAt(k)) :
                /\ Contains(TextAt(k), ExpectedDeleteCall(node))
                /\ ~Contains(TextAt(k), <<"d", "e", "l", "e", "t", "e">>)


\* The nodes of the unit whose rewrite writes a call of the hook.
HookNodes ==
    { node \in Subtrees(sourceFile) :
          isAssignmentNode(node) \/ isUpdateNode(node) \/ isDeleteNode(node) }

\* How an import statement of the hook starts.
ImportKeyword ==
    <<"i", "m", "p", "o", "r", "t", " ", "{", "a", "s", "s", "i", "g", "n", " ", "a", "s", " ">>

\* C12: once the rewritten text is written (line 64), it starts with the
\* import statement binding the allocated hook name, and holds no other
\* import of the hook, when some rewrite wrote a hook call, however many;
\* it holds no import of the hook at all when none did.
C12_HookImportOnce ==
    (pc = "transpile" /\ sourceMap.defined) =>
        LET text     == Chars(sourceText)
            expected == Chars(importStatement(assignIdentifier))
        IN  IF HookNodes # {}
            THEN /\ SubSeq(text, 1, Len(expected)) = expected
                 /\ Occurrences(text, ImportKeyword) = 1
            ELSE Occurrences(text, ImportKeyword) = 0

\* C12 witness: a rewritten text with two hook calls and one import
\* statement, at its start.
C12_Witness ==
    /\ pc = "transpile" /\ sourceMap.defined
    /\ Cardinality(HookNodes) >= 2
    /\ Occurrences(Chars(sourceText), assignIdentifier \o <<"(">>) >= 2
    /\ Occurrences(Chars(sourceText), ImportKeyword) = 1
    /\ SubSeq(Chars(sourceText), 1, Len(ImportKeyword)) = ImportKeyword


(***************************************************************************)
(* Properties of the diagnostics gate.                                     *)
(***************************************************************************)
\* The diagnostics of error severity among those the front end reported.
ErrorsOf(reported) == SelectSeq(reported, LAMBDA diagnostic : diagnostic.category = "Error")

\* Nothing of the scan, the walk or the lowering pass has happened.
NothingStarted ==
    /\ identifiers = <<>>
    /\ calls = <<>>
    /\ rootNode = NoFragment
    /\ shouldImportAssign = FALSE
    /\ sourceText = Tagged(originalText)
    /\ result = NoMap

\* C14: a run with diagnostics requested that is handed a diagnostic of
\* error severity fails at once, with the flattened message of the first
\* such diagnostic, and a run fails only so: with diagnostics requested,
\* on an error, before the scan, the walk and the lowering pass.  A run
\* with no diagnostics requested never fails and is handed no diagnostics.
C14_DiagnosticsGate ==
    /\ [][ pc = "report" /\ ErrorsOf(diagnostics) # <<>> =>
               /\ pc' = "failed"
               /\ error' = flattenDiagnosticMessageText(ErrorsOf(diagnostics)[1].messageText) ]_vars
    /\ [](pc = "failed" =>
              /\ shouldDiagnose
              /\ ErrorsOf(diagnostics) # <<>>
              /\ error = flattenDiagnosticMessageText(ErrorsOf(diagnostics)[1].messageText)
              /\ NothingStarted)
    /\ [](~shouldDiagnose => pc # "failed" /\ error = NoError /\ diagnostics = <<>>)

\* A run has failed on the error that came after a warning.
C14_Witness ==
    /\ pc = "failed"
    /\ Len(diagnostics) = 2
    /\ diagnostics[1].category = "Warning"
    /\ error = diagnostics[2].messageText[1]

(***************************************************************************)
(* Properties of the tables of a class.  They are stated on the fragment   *)
(* of the class declaration once the walk is done.  The statements the     *)
(* walk appended are read as JavaScript: property = property ?             *)
(* Object.assign(property, table) : table, with an object literal or an    *)
(* array literal as the table.  A table is [array, at]: at gives the value *)
(* of each key, the keys of an array being 0, 1, ...                       *)
(***************************************************************************)
\* The class declaration of the unit: its place among the statements, the
\* node, its fragment and the text of the fragment.
ClassPlaces ==
    { k \in 1..Len(sourceFile.children) : sourceFile.children[k].kind = "ClassDeclaration" }

ClassPlace == CHOOSE k \in ClassPlaces : TRUE

ClassNode == sourceFile.children[ClassPlace]

ClassFragment == NodeChildren(rootNode)[ClassPlace]

ClassText == Chars(Flatten(ClassFragment))

\* What the walk wrote after the text of the class declaration.
AppendedText ==
    LET built == Len(createSourceNode(ClassNode).sn.children)
        all   == ClassFragment.children
    IN  Chars(FlattenAll(SubSeq(all, built + 1, Len(all))))

\* The statements of a text: its tokens, cut after every ";".
StatementsOf(text) ==
    LET tokens == Tokens(text)
        ends   == { n \in 1..Len(tokens) : tokens[n].text = <<";">> /\ tokens[n].kind = "punct" }
        from(j) == IF j = 1 THEN 1 ELSE Nth(ends, j - 1) + 1
    IN  [j \in 1..Cardinality(ends) |-> SubSeq(tokens, from(j), Nth(ends, j))]

Texts(tokens) == [n \in 1..Len(tokens) |-> tokens[n].text]

\* The static property a merge statement assigns: the word after "C.".
PropertyOf(statement) == statement[3].text

\* The tokens of the table of a merge statement.
TableOf(statement) == SubSeq(statement, 17, 16 + (Len(statement) - 19) \div 2)

\* A statement is property = property ? Object.assign(property, table) : table;
IsMergeStatement(statement) ==
    LET width    == (Len(statement) - 19) \div 2
        property == Texts(SubSeq(statement, 1, 3))
    IN  /\ Len(statement) >= 21 /\ (Len(statement) - 19) % 2 = 0
        /\ property[1] = Chars(getText(childAt(ClassNode, "name")))
        /\ property[2] = <<".">>
        /\ Texts(SubSeq(statement, 4, 16))
             = << <<"=">> >> \o property \o << <<"?">>, <<"O", "b", "j", "e", "c", "t">>, <<".">>, <<"a", "s", "s", "i", "g", "n">>, <<"(">> >>
               \o property \o << <<",">> >>
        /\ Texts(SubSeq(statement, 17 + width, 18 + width)) = << <<")">>, <<":">> >>
        /\ SubSeq(statement, 19 + width, 18 + 2 * width) = TableOf(statement)
        /\ statement[Len(statement)].text = <<";">>

NoTable == [set |-> FALSE, array |-> FALSE, at |-> <<>>]

Table(array, at) == [set |-> TRUE, array |-> array, at |-> at]

\* The table a literal stands for: [value, ...] or {key:value, ...}; of two
\* entries with one key an object keeps the last.
Literal(tokens) ==
    IF tokens[1].text = <<"[">>
    THEN Table(TRUE, [n \in 0..((Len(tokens) - 1) \div 2 - 1) |-> tokens[2 * n + 2].text])
    ELSE LET count == (Len(tokens) - 1) \div 4
             keys  == { tokens[4 * n - 2].text : n \in 1..count }
             last(key) == CHOOSE n \in 1..count :
                              /\ tokens[4 * n - 2].text = key
                              /\ \A q \in 1..count : tokens[4 * q - 2].text = key => q <= n
         IN  Table(FALSE, [key \in keys |-> tokens[4 * last(key)].text])

\* Object.assign(target, source): every own key of the source is written
\* to the target.
ObjectAssign(target, source) ==
    [target EXCEPT !.at = [key \in DOMAIN target.at \cup DOMAIN source.at |->
                              IF key \in DOMAIN source.at THEN source.at[key]
                              ELSE target.at[key]]]

\* What the property holds after a merge statement ran with the property
\* holding `prior` (any table is truthy, a property not set is not).
RunMerge(statement, prior) ==
    IF prior.set THEN ObjectAssign(prior, Literal(TableOf(statement)))
    ELSE Literal(TableOf(statement))

\* The entries of a table: the names of a list, the pairs of an object.
Entries(table) ==
    IF table.array THEN { table.at[key] : key \in DOMAIN table.at }
    ELSE { << key, table.at[key] >> : key \in DOMAIN table.at }

\* The entries of a table that a new table has nothing to say about.
Unrelated(prior, new) ==
    IF prior.array THEN Entries(prior)
    ELSE { entry \in Entries(prior) : entry[1] \notin DOMAIN new.at }

\* Tables a static property can hold before the statement runs: none, one
\* entry, two entries of which one has the key of a member of the units.
Priors(array) ==
    IF array
    THEN { NoTable, Table(TRUE, 0 :> <<"p">>),
           Table(TRUE, (0 :> <<"p">>) @@ (1 :> <<"q">>)) }
    ELSE { NoTable, Table(FALSE, <<"p">> :> <<"q">>),
           Table(FALSE, (<<"p">> :> <<"q">>) @@ (nX :> <<"o">>) @@ (nI :> <<"o">>)) }

\* A merge statement of an object table, of a list.
IsObjectMerge(statement) ==
    IsMergeStatement(statement) /\ ~Literal(TableOf(statement)).array

IsListMerge(statement) ==
    IsMergeStatement(statement) /\ Literal(TableOf(statement)).array

\* The merge statements of the unit's class.
MergeStatements ==
    IF ClassPlaces = {} THEN {}
    ELSE { StatementsOf(AppendedText)[j] : j \in 1..Len(StatementsOf(AppendedText)) }

\* A merge statement keeps what the property held and adds the new table.
Merges(statement, prior) ==
    LET new   == Literal(TableOf(statement))
        after == RunMerge(statement, prior)
    IN  IF prior.set
        THEN Unrelated(prior, new) \cup Entries(new) \subseteq Entries(after)
        ELSE after = new

\* C13: every statement appended to a class has the form of a merge
\* statement, and running it with the property holding a table leaves
\* every entry of the new table and every unrelated entry the property
\* held; with the property not set it leaves the new table.
C13_MetadataMerge ==
    pc = "flatten" =>
        \A statement \in MergeStatements :
            /\ IsMergeStatement(statement)
            /\ \A prior \in Priors(Literal(TableOf(statement)).array) :
                   Merges(statement, prior)


(***************************************************************************)
(* Properties of the attribute table.  The annotation of a member is read  *)
(* from the text of its declaration: a ":" followed by a comment whose     *)
(* content is a mode word and, with or without a blank between, an alias   *)
(* of lower-case letters, digits and "-" that starts with a letter.        *)
(***************************************************************************)
\* The code of a mode.
CodeOf(mode) ==
    CASE mode = <<"g", "e", "t">> -> <<>>
      [] mode = <<"e", "v", "a", "l">> -> <<"?">>
      [] mode = <<"w", "a", "t", "c", "h">> -> <<".">>
      [] mode = <<"b", "i", "n", "d">> -> <<":">>

IsAlias(word) ==
    /\ word # <<>>
    /\ word[1] \in LowerCase
    /\ \A n \in 1..Len(word) : word[n] \in LowerCase \cup Digits \cup {"-"}

\* The content of the comment that follows the ":" at offset k, trimmed,
\* or no content when no comment follows.
CommentAfter(text, k) ==
    LET open   == skipWhiteSpace(text, k + 1)
        closes == { n \in (open + 2)..(Len(text) - 2) : StartsWith(text, n, <<"*", "/">>) }
        close  == CHOOSE n \in closes : \A q \in closes : n <= q
    IN  IF StartsWith(text, k, <<":">>) /\ StartsWith(text, open, <<"/", "*">>) /\ closes # {}
        THEN [found |-> TRUE, content |-> trim(SubSeq(text, open + 3, close))]
        ELSE [found |-> FALSE, content |-> <<>>]

\* The modes a comment content starts with (one or none).
ModesOf(content) == { mode \in Modes : StartsWith(content, 0, mode) }

AliasOf(content) ==
    LET mode == CHOOSE m \in ModesOf(content) : TRUE
    IN  trim(SubSeq(content, Len(mode) + 1, Len(content)))

\* The comment after the ":" at offset k is an attribute annotation.
IsAnnotation(text, k) ==
    LET comment == CommentAfter(text, k)
    IN  /\ comment.found
        /\ ModesOf(comment.content) # {}
        /\ AliasOf(comment.content) = <<>> \/ IsAlias(AliasOf(comment.content))

Annotations(text) == { k \in 0..(Len(text) - 1) : IsAnnotation(text, k) }

\* The entries a member stands for: none, or its key and its code.
ExpectedAttribute(member) ==
    LET text    == Chars(getText(member))
        first   == CHOOSE k \in Annotations(text) : \A q \in Annotations(text) : k <= q
        content == CommentAfter(text, first).content
        mode    == CHOOSE m \in ModesOf(content) : TRUE
        key     == Chars(getText(childAt(member, "name")))
                   \o (IF childAt(member, "questionToken") # NoNode THEN <<"?">> ELSE <<>>)
    IN  IF Annotations(text) = {} THEN <<>>
        ELSE << << key, CodeOf(mode) \o AliasOf(content) >> >>

\* The members of the class of the unit, in the order they are declared.
MembersOf(node) == SelectSeq(node.children, LAMBDA child : child.role = "members")

ExpectedAttributes(members) ==
    Concat([n \in 1..Len(members) |-> ExpectedAttribute(members[n])])

\* The pairs of an object literal, in the order they are written.
PairsOf(tokens) ==
    [n \in 1..((Len(tokens) - 1) \div 4) |-> << tokens[4 * n - 2].text, tokens[4 * n].text >>]

\* The merge statements appended for one static property.
StatementsFor(property) ==
    SelectSeq(StatementsOf(AppendedText),
              LAMBDA statement : Len(statement) >= 3 /\ PropertyOf(statement) = property)

\* The attribute table the walk recorded for the class: the pairs of its
\* merge statement, none when there is no statement.
AttributesRecorded ==
    LET statements == StatementsFor(<<"a", "t", "t", "r", "i", "b", "u", "t", "e", "s">>)
    IN  IF statements = <<>> THEN <<>> ELSE PairsOf(TableOf(statements[1]))

\* The class of the unit is a component class: the lineage resolver says
\* it extends the default export of the component module.
IsComponentClass ==
    /\ pc = "flatten"
    /\ ClassPlaces # {}
    /\ extendsClass(1, default, coreComponent) = "true"

\* C15: the attribute table of a component class holds one entry for every
\* property declaration among its members whose text holds an attribute
\* annotation, in the order of the declarations, with the member name (and
\* "?" iff the member is optional) as the key and the code of the mode
\* followed by the trimmed alias as the value; it holds no other entry and
\* is written by at most one statement.
C15_AttributeTableOfProperties ==
    IsComponentClass =>
        /\ Len(StatementsFor(<<"a", "t", "t", "r", "i", "b", "u", "t", "e", "s">>)) <= 1
        /\ \A n \in 1..Len(StatementsFor(<<"a", "t", "t", "r", "i", "b", "u", "t", "e", "s">>)) :
               IsObjectMerge(StatementsFor(<<"a", "t", "t", "r", "i", "b", "u", "t", "e", "s">>)[n])
        /\ AttributesRecorded = ExpectedAttributes(PropertyDeclarations(ClassNode))

\* A component class with an optional bound member with an alias after a
\* plain one has its table.
C15_Witness ==
    /\ IsComponentClass
    /\ AttributesRecorded = << << <<"x">>, <<>> >>, << <<"x", "?">>, <<":", "a", "l">> >> >>

\* C15 as stated: every member whose text holds an attribute annotation has
\* its entry, a method as well as a property declaration.
C15_AttributeTableOfMembers ==
    IsComponentClass =>
        AttributesRecorded = ExpectedAttributes(MembersOf(ClassNode))

(***************************************************************************)
(* Properties of the class rule and of the view rule.  Whether a class     *)
(* extends a framework module is the answer of the lineage resolver.       *)
(***************************************************************************)
Extends(from) == ClassPlaces # {} /\ extendsClass(1, default, from) = "true"

TableProperties == { <<"i", "n", "j", "e", "c", "t">>, <<"a", "t", "t", "r", "i", "b", "u", "t", "e", "s">>, <<"l", "o", "c", "a", "l", "s">> }

\* C16: the statements appended to a class are merge statements of the
\* three tables; one for inject is appended only to a class that extends
\* the component module or the behavior module, one for attributes or for
\* locals only to a class that extends the component module, and a class
\* that extends neither is appended nothing.
C16_SentinelEligibility ==
    (pc = "flatten" /\ ClassPlaces # {}) =>
        /\ \A statement \in MergeStatements : PropertyOf(statement) \in TableProperties
        /\ StatementsFor(<<"i", "n", "j", "e", "c", "t">>) # <<>> => Extends(coreComponent) \/ Extends(coreBehavior)
        /\ StatementsFor(<<"a", "t", "t", "r", "i", "b", "u", "t", "e", "s">>) # <<>> => Extends(coreComponent)
        /\ StatementsFor(<<"l", "o", "c", "a", "l", "s">>) # <<>> => Extends(coreComponent)
        /\ ~Extends(coreComponent) /\ ~Extends(coreBehavior) => AppendedText = <<>>

\* A class below the behavior module with an injected member and a member
\* marked local has its inject table and no locals table.
C16_Witness ==
    /\ pc = "flatten"
    /\ Extends(coreBehavior)
    /\ ~Extends(coreComponent)
    /\ \E member \in Subtrees(ClassNode) :
           member.kind = "PropertyDeclaration" /\ matchLocal(Chars(getText(member)))
    /\ StatementsFor(<<"i", "n", "j", "e", "c", "t">>) # <<>>
    /\ StatementsFor(<<"l", "o", "c", "a", "l", "s">>) = <<>>

RECURSIVE Paired(_, _)
\* The nodes of a tree with the fragments the walk built for them, as far
\* down as the fragments keep the shape createSourceNode gave them.
Paired(node, fragment) ==
    { << node, fragment >> }
    \cup (IF Len(NodeChildren(fragment)) = Len(node.children)
          THEN UNION { Paired(node.children[n], NodeChildren(fragment)[n]) :
                           n \in 1..Len(node.children) }
          ELSE {})

StringLiterals == { node \in Subtrees(sourceFile) : node.kind = "StringLiteral" }

\* A string literal that is the initializer of a member named view of a
\* class declaration that extends the route module.
IsRouteViewLiteral(node) ==
    /\ node.role = "initializer"
    /\ node.up.kind = "PropertyDeclaration"
    /\ Chars(getText(node.up.name)) = <<"v", "i", "e", "w">>
    /\ node.up.upKind = "ClassDeclaration"
    /\ Extends(componentsRoute)

\* A function of no argument that returns the deferred load of the default
\* export of the module a literal names.
DeferredLoad(literal) ==
    <<"(", ")", " ", "=", ">", " ", "n", "e", "w", " ", "P", "r", "o", "m", "i", "s", "e", "(", "r", "e", "s", "o", "l", "v", "e", " ", "=", ">", " ", "r", "e", "q", "u", "i", "r", "e", ".", "e", "n", "s", "u", "r", "e", "(">> \o literal
    \o <<",", " ", "r", "e", "q", "u", "i", "r", "e", " ", "=", ">", " ", "r", "e", "s", "o", "l", "v", "e", "(", "r", "e", "q", "u", "i", "r", "e", "(">> \o literal \o <<")", ".", "d", "e", "f", "a", "u", "l", "t", ")", ")", ")">>

\* C17: in a unit that declares a class every string literal has its
\* fragment, whose text is the deferred load of the literal when the
\* literal is the initializer of a member named view of a class that
\* extends the route module, and the text of the literal with what stood
\* in front of it otherwise; a unit with no assignment, update or delete
\* does not set shouldImportAssign.
C17_RouteViewRewrite ==
    (pc = "flatten" /\ ClassPlaces # {}) =>
        /\ \A node \in StringLiterals :
               \E pair \in Paired(sourceFile, rootNode) : pair[1] = node
        /\ \A pair \in Paired(sourceFile, rootNode) :
               pair[1].kind = "StringLiteral" =>
                   Chars(Flatten(pair[2])) =
                       IF IsRouteViewLiteral(pair[1])
                       THEN DeferredLoad(Chars(getText(pair[1])))
                       ELSE Chars(getFullText(pair[1]))
        /\ HookNodes = {} => ~shouldImportAssign

\* The view of a class below the route module has been rewritten, the
\* specifier of the import in front of the class has not.
C17_Witness ==
    /\ pc = "flatten"
    /\ ClassPlaces # {}
    /\ Cardinality(StringLiterals) >= 2
    /\ \E pair \in Paired(sourceFile, rootNode) :
           /\ IsRouteViewLiteral(pair[1])
           /\ Chars(Flatten(pair[2])) = DeferredLoad(Chars(getText(pair[1])))

(***************************************************************************)
(* Properties of the place of a replacement.                               *)
(***************************************************************************)
\* A rule that replaces text fires on a node.
RuleFiresOn(node) ==
    isAssignmentNode(node) \/ isUpdateNode(node) \/ isDeleteNode(node) \/ isViewNode(node)

\* The fragment of a node starts with what stands in front of the node's
\* first token, every character of it from its own place.
LeadKept(node, fragment) ==
    LET width == getStart(node) - node.pos
        text  == Flatten(fragment)
    IN  /\ Len(text) >= width
        /\ SubSeq(text, 1, width) = Substr(Tagged(originalText), node.pos, width)

\* C18: the fragment of every node a rule fires on starts with the blanks
\* and comments that stand in front of the node's first token, so that
\* all inserted text comes after them.
C18_ReplacementInsideSpan ==
    pc = "flatten" =>
        \A pair \in Paired(sourceFile, rootNode) :
            RuleFiresOn(pair[1]) => LeadKept(pair[1], pair[2])

\* The part of C18 that holds: the rules that rebuild the fragment of a
\* member assignment, of a prefix update of a member and of a delete.
RebuiltKeepLead ==
    pc = "flatten" =>
        \A pair \in Paired(sourceFile, rootNode) :
            (\/ isMemberAssignment(pair[1])
             \/ isDeleteNode(pair[1])
             \/ /\ isUpdateNode(pair[1])
                /\ pair[1].kind = "PrefixUnaryExpression"
                /\ isMemberKind(pair[1].children[1]))
            => LeadKept(pair[1], pair[2])

\* The assignments and updates of something that is no member access.
GenericNodes ==
    { node \in HookNodes :
          /\ isAssignmentNode(node) \/ isUpdateNode(node)
          /\ ~isMemberKind(node.children[1]) }

\* The tokens of the unit with the text of one node made the argument of a
\* call of the hook.
WrappedTokens(node) ==
    LET start == getStart(node)
    IN  Tokens(SubSeq(originalText, 1, start))
        \o << [kind |-> "word", text |-> assignIdentifier],
              [kind |-> "punct", text |-> <<"(">>] >>
        \o Tokens(SubSeq(originalText, start + 1, node.end))
        \o << [kind |-> "punct", text |-> <<")">>] >>
        \o Tokens(SubSeq(originalText, node.end + 1, Len(originalText)))

\* C19: in a unit whose only assignment or update is one of something that
\* is no member access, the text the walk built is, token by token, the
\* text of the unit with the expression made the single argument of a call
\* of the hook.
C19_GenericWrapper ==
    (pc = "flatten" /\ Cardinality(HookNodes) = 1 /\ GenericNodes = HookNodes) =>
        \A node \in GenericNodes :
            Tokens(Chars(Flatten(rootNode))) = WrappedTokens(node)

\* The part of C19 that holds: the same, when no blank or comment stands
\* in front of the expression.
GenericWrapperAtStart ==
    (pc = "flatten" /\ Cardinality(HookNodes) = 1 /\ GenericNodes = HookNodes) =>
        \A node \in GenericNodes :
            getStart(node) = node.pos =>
                Tokens(Chars(Flatten(rootNode))) = WrappedTokens(node)

(***************************************************************************)
(* Properties of the order of the walk.                                    *)
(***************************************************************************)
\* How often a function was called on a node during the walk.
CallsOf(function, node) ==
    Cardinality({ n \in 1..Len(calls) : calls[n] = Call(function, node) })

\* C20: during one walk findEdits is called at most once on each node of
\* the unit, and createSourceNode, which builds the fragment of a node, at
\* most once on each node.
C20_SinglePassWalk ==
    pc = "flatten" =>
        \A node \in Subtrees(sourceFile) :
            /\ CallsOf("findEdits", node) <= 1
            /\ CallsOf("createSourceNode", node) <= 1

\* The part of C20 that holds: the walk of a unit with no assignment to a
\* member is single-pass, and every node but the root is dispatched once.
SinglePassWithoutMemberAssignment ==
    (pc = "flatten" /\ \A node \in Subtrees(sourceFile) : ~isMemberAssignment(node)) =>
        \A node \in Subtrees(sourceFile) :
            /\ CallsOf("findEdits", node) = (IF node = sourceFile THEN 0 ELSE 1)
            /\ CallsOf("createSourceNode", node) = 1

(***************************************************************************)
(* Properties of the interception.  They are stated on the text of the     *)
(* fragment tree the walk has built, every character of which carries the  *)
(* place of the unit it was copied from.                                   *)
(***************************************************************************)
\* The place, in the unit, of the character that makes a node an
\* assignment, an update or a delete: the "=" that ends the assignment
\* operator, the first character of "++" or "--", the "d" of delete.
OperatorPlace(node) ==
    IF isAssignmentNode(node) THEN node.children[2].end
    ELSE IF node.kind = "PostfixUnaryExpression" THEN node.end - 1
    ELSE getStart(node) + 1

RECURSIVE Opener(_, _, _)
\* The bracket that opens the innermost pair of brackets around the
\* characters after place p of a text, found from p downwards with `depth`
\* pairs closed on the way; 0 when there is none.
Opener(text, p, depth) ==
    IF p = 0 THEN 0
    ELSE IF text[p] \in {")", "]"} THEN Opener(text, p - 1, depth + 1)
    ELSE IF text[p] \in {"(", "["}
    THEN IF depth = 0 THEN p ELSE Opener(text, p - 1, depth - 1)
    ELSE Opener(text, p - 1, depth)

RECURSIVE HasComma(_, _, _)
\* A comma stands between the bracket before place p and the bracket that
\* closes it, outside every pair of brackets between the two.
HasComma(text, p, depth) ==
    IF p > Len(text) THEN FALSE
    ELSE IF text[p] \in {"(", "["} THEN HasComma(text, p + 1, depth + 1)
    ELSE IF text[p] \in {")", "]"}
    THEN IF depth = 0 THEN FALSE ELSE HasComma(text, p + 1, depth - 1)
    ELSE IF text[p] = "," /\ depth = 0 THEN TRUE
    ELSE HasComma(text, p + 1, depth)

\* The bracket at place q of a text opens a call of the hook with one
\* argument.
IsWrapper(text, q) ==
    /\ q > Len(assignIdentifier)
    /\ text[q] = "("
    /\ SubSeq(text, q - Len(assignIdentifier), q - 1) = assignIdentifier
    /\ ~HasComma(text, q + 1, 0)

\* The character at place p of a text is the argument of a call of the
\* hook, not a part of an argument among several and not inside brackets
\* of its own.
IsWrapped(text, p) == IsWrapper(text, Opener(text, p - 1, 0))

\* The places of the rewritten text that hold a copy of a character.
CopiesOf(place) ==
    { p \in 1..Len(Flatten(rootNode)) : Flatten(rootNode)[p].o = place }

\* A node was replaced (nothing of its operator was copied) or every copy
\* of it is wrapped in a call of the hook.
IsIntercepted(node) ==
    \A p \in CopiesOf(OperatorPlace(node)) : IsWrapped(Chars(Flatten(rootNode)), p)

\* C24: in the rewritten text of a unit of the user, every assignment,
\* every ++ and --, and every delete of a member of the unit is replaced by
\* a call of the hook or is the one argument of a call of the hook,
\* wherever it stands and however often its text is repeated.
C24_CompleteInterception ==
    pc = "flatten" => \A node \in HookNodes : IsIntercepted(node)

\* The part of C24 that holds: the nodes that stand neither in the left
\* side nor in the right-hand side of an assignment to a member, nor in
\* the operand of an update or a delete of a member.
InterceptedOutsideMembers ==
    pc = "flatten" =>
        \A node \in HookNodes :
            (\A above \in HookNodes :
                 (node \in Subtrees(above) /\ node # above)
                     => ~isMemberKind(above.children[1]))
                => IsIntercepted(node)

(***************************************************************************)
(* Properties of the value of a compound assignment.                       *)
(***************************************************************************)
\* The compound assignment operators the emitted text is evaluated for.
Arithmetic ==
    [PlusEqualsToken |-> "+", MinusEqualsToken |-> "-", AsteriskEqualsToken |-> "*"]

\* The statements that are a compound assignment to a member of `a` with
\* one of these operators and a right-hand side without assignment,
\* update or delete.
CompoundStatements ==
    { k \in Statements :
          /\ isMemberAssignment(ExpressionAt(k))
          /\ ExpressionAt(k).children[2].kind \in DOMAIN Arithmetic
          /\ \A node \in Subtrees(ExpressionAt(k)) :
                 node \in HookNodes => node = ExpressionAt(k) }

\* With the heap as given, the text of statement k stores and yields what
\* the compound assignment of the unit does: the value of the member,
\* the operator, the value of the whole right-hand side.
CompoundValueKept(k, heap) ==
    LET node  == ExpressionAt(k)
        key   == KeyOf(node.children[1])
        right == Evaluate(Chars(getText(node.children[3])), heap, assignIdentifier)
        value == Apply(Arithmetic[node.children[2].kind], heap[key], right.value)
        run   == Evaluate(TextAt(k), heap, assignIdentifier)
    IN  /\ right.ok /\ run.ok
        /\ run.value = value
        /\ run.heap = [heap EXCEPT ![key] = value]

\* C25: the call that replaces a compound assignment a.b OP= rhs stores and
\* returns the value of a.b OP (rhs), for every right-hand side, those
\* with an operator of their own included.
C25_CompoundValueEquivalence ==
    pc = "flatten" =>
        \A k \in CompoundStatements : \A heap \in Heaps : CompoundValueKept(k, heap)

\* The part of C25 that holds: the right-hand sides that are one operand.
CompoundValueOfOperand ==
    pc = "flatten" =>
        \A k \in CompoundStatements :
            ExpressionAt(k).children[3].kind # "BinaryExpression"
                => \A heap \in Heaps : CompoundValueKept(k, heap)

(***************************************************************************)
(* Properties of the tables of a class and of its base class.  JavaScript  *)
(* holds a table by reference: objects[r] is the table the reference r     *)
(* stands for, base the reference the static property of the base class    *)
(* holds and own the reference the class's own property holds (0: not      *)
(* set).  A class without a property of its own reads that of its base     *)
(* class.                                                                  *)
(***************************************************************************)
Statics(objects, base, own) == [objects |-> objects, base |-> base, own |-> own]

\* C.property, read: the own property, else the one of the base class.
ReadStatic(statics) == IF statics.own # 0 THEN statics.own ELSE statics.base

\* What the evaluation of Object.assign(C.property, table) leaves: the
\* object C.property refers to, written in place.
AssignedInPlace(statics, table) ==
    [statics EXCEPT !.objects[ReadStatic(statics)] = ObjectAssign(@, table),
                    !.own = ReadStatic(statics)]

\* What a merge statement leaves: C.property = C.property ?
\* Object.assign(C.property, table) : table.
RunOnStatics(statement, statics) ==
    IF ReadStatic(statics) # 0
    THEN AssignedInPlace(statics, Literal(TableOf(statement)))
    ELSE [statics EXCEPT !.objects = Append(@, Literal(TableOf(statement))),
                         !.own = Len(statics.objects) + 1]

\* The tables a base class can hold for a kind of table.
BaseTables(array) == { prior \in Priors(array) : prior.set }

\* The table of the base class is inherited: the class has none of its own.
Inherited(prior) == Statics(<< prior >>, 1, 0)

\* The class has a table of its own, with the entries of the base class's.
Owned(prior) == Statics(<< prior, prior >>, 1, 2)

\* The statement leaves the base class's table as it was and the class's
\* own property with the new entries.
Isolates(statement, statics) ==
    LET after == RunOnStatics(statement, statics)
    IN  /\ after.base = statics.base
        /\ after.objects[after.base] = statics.objects[statics.base]
        /\ after.own # 0
        /\ Entries(Literal(TableOf(statement))) \subseteq Entries(after.objects[after.own])

\* C26: running a merge statement of a class whose table is the table of
\* its base class leaves the base class's table with the entries it had,
\* and the class's own property with the new entries.
C26_BaseTableIsolation ==
    pc = "flatten" =>
        \A statement \in MergeStatements :
            IsMergeStatement(statement) =>
                \A prior \in BaseTables(Literal(TableOf(statement)).array) :
                    Isolates(statement, Inherited(prior))

\* The part of C26 that holds: a class that has a table object of its own.
IsolatedWhenOwned ==
    pc = "flatten" =>
        \A statement \in MergeStatements :
            IsMergeStatement(statement) =>
                \A prior \in BaseTables(Literal(TableOf(statement)).array) :
                    Isolates(statement, Owned(prior))

(***************************************************************************)
(* Properties of the composed map.  They are stated when the run returns   *)
(* (pc = "done"), for a unit that was rewritten: sourceText is then the    *)
(* rewritten text, result the map of the lowering pass with the position   *)
(* it traces, returned.map the composed map.                               *)
(***************************************************************************)
\* The characters of the rewritten text that stand at a position.
CharactersAt(position) ==
    { n \in 1..Len(sourceText) : PositionOf(sourceText, n - 1) = position }

\* Where the o-th character of the unit stands in the unit.
OriginalPlace(o) ==
    LET at == getLineAndCharacterOfPosition(originalText, o - 1)
    IN  [line |-> at.line + 1, column |-> at.character]

\* The entries the composed map has for an output position.
EntriesFor(generated) == { e \in returned.map.mappings : e.generated = generated }

\* C8: an output position the lowering map traces to a character a rewrite
\* wrote itself (hook name, parenthesis, quoted key, import statement) has
\* no entry in the composed map.
C8_SynthesizedTextUnmapped ==
    (pc = "done" /\ sourceMap.defined) =>
        \A m \in result.mappings :
            \A n \in CharactersAt(m.original) :
                sourceText[n].o = 0 => EntriesFor(m.generated) = {}

\* C9: an output position the lowering map traces to a character copied
\* from the unit is resolved by the composed map to the line and column
\* where that character stands in the unit.
C9_CopiedTextMapsExactly ==
    (pc = "done" /\ sourceMap.defined) =>
        \A m \in result.mappings :
            \A n \in CharactersAt(m.original) :
                sourceText[n].o > 0 =>
                    /\ EntriesFor(m.generated) # {}
                    /\ \A e \in EntriesFor(m.generated) :
                           e.original = OriginalPlace(sourceText[n].o)


====
